---- MODULE Spec2Model ----
(***************************************************************************)
(* Timeframe / period-bucketing / aggregation engine of the dashboard      *)
(* backend (backend/app/api/*.py).                                         *)
(*                                                                         *)
(* Dates are triples <<year, month, day>>.  A period label is a record     *)
(* [y, m, q]: the month label "YYYY-MM" has q = 0, the quarter label       *)
(* "YYYY-Qn" has m = 0.  Numbers that the code divides are kept as exact   *)
(* fractions [n, d] (d > 0), compared by cross multiplication.             *)
(***************************************************************************)
EXTENDS Integers, Sequences, FiniteSets, TLC

VARIABLES today, store, resp,         \* wall-clock date, database, answer on the wire
          inflight,                   \* the dashboard request being served, if any
          _LAST_CALL_TS, clock, ai_threads,   \* ai_summary: module global, time.time(), workers
          meetings, meeting_threads   \* the meetings table and the workers of its API

vars == <<today, store, resp, inflight, _LAST_CALL_TS, clock, ai_threads,
          meetings, meeting_threads>>

\* what the aggregation endpoints never touch
others == <<inflight, _LAST_CALL_TS, clock, ai_threads, meetings, meeting_threads>>

\* ---------------------------------------------------------------- bounds
\* last calendar year the modelled wall clock walks through
LastYear == 2025

\* first day of the modelled wall clock (2024 is a leap year)
StartDate == <<2024, 1, 1>>

Ranges == {"6m", "12m"}
Grans == {"month", "quarter"}

\* ---------------------------------------------------------------- calendar
IsLeap(y) == (y % 4 = 0 /\ y % 100 # 0) \/ y % 400 = 0

DaysInMonth(y, m) ==
  IF m = 2 THEN (IF IsLeap(y) THEN 29 ELSE 28)
  ELSE IF m \in {4, 6, 9, 11} THEN 30 ELSE 31

\* d - dt.timedelta(days=1)
minus_one_day(d) ==
  IF d[3] > 1 THEN <<d[1], d[2], d[3] - 1>>
  ELSE IF d[2] > 1 THEN <<d[1], d[2] - 1, DaysInMonth(d[1], d[2] - 1)>>
  ELSE <<d[1] - 1, 12, 31>>

\* d + one day (the wall clock)
next_day(d) ==
  IF d[3] < DaysInMonth(d[1], d[2]) THEN <<d[1], d[2], d[3] + 1>>
  ELSE IF d[2] < 12 THEN <<d[1], d[2] + 1, 1>>
  ELSE <<d[1] + 1, 1, 1>>

\* a <= b on dates / on "YYYY-MM-DD" strings (lexicographic)
DateLeq(a, b) ==
  \/ a[1] < b[1]
  \/ a[1] = b[1] /\ a[2] < b[2]
  \/ a[1] = b[1] /\ a[2] = b[2] /\ a[3] <= b[3]

\* a <= b on "YYYY-MM" strings (lexicographic, zero padded)
YmLeq(a, b) == a.y < b.y \/ (a.y = b.y /\ a.m <= b.m)

\* ---------------------------------------------------------------- date helpers
month_floor(d) == <<d[1], d[2], 1>>

\* the variant whose division and remainder round toward zero
month_add_truncating(d, months) ==
  LET x == d[2] - 1 + months
      quot == IF x >= 0 THEN x \div 12 ELSE -((-x) \div 12)
      rem == x - 12 * quot
  IN <<d[1] + quot, rem + 1, 1>>

month_add(d, months) ==
  LET y == d[1] + ((d[2] - 1 + months) \div 12)
      m == ((d[2] - 1 + months) % 12) + 1
  IN <<y, m, 1>>

\* d.strftime("%Y-%m") / iso[:7]
strftime_ym(d) == [y |-> d[1], m |-> d[2], q |-> 0]

\* the variant with the off-by-one quarter formula m // 3 + 1
to_quarter_label_shifted(ym) == [y |-> ym.y, m |-> 0, q |-> (ym.m \div 3) + 1]

to_quarter_label(ym) == [y |-> ym.y, m |-> 0, q |-> ((ym.m - 1) \div 3) + 1]

NumMonths(range_) == IF range_ = "6m" THEN 6 ELSE 12

\* ---------------------------------------------------------------- build_timeframe, one per module
\* the variant with the window of sales and supply
build_timeframe_exec_long(td, range_, granularity) ==
  [range |-> range_,
   start_date |-> month_add(month_floor(td), -NumMonths(range_)),
   end_date |-> minus_one_day(month_add(month_floor(td), 1)),
   granularity |-> granularity]

build_timeframe_exec(td, range_, granularity) ==
  LET start_of_this_month == month_floor(td)
      end_date == minus_one_day(month_add(start_of_this_month, 1))
      months == NumMonths(range_)
      start_date == month_add(start_of_this_month, -(months - 1))
  IN [range |-> range_, start_date |-> start_date,
      end_date |-> end_date, granularity |-> granularity]

build_timeframe_finance(td, range_, granularity) ==
  LET start_of_this_month == month_floor(td)
      end_date == minus_one_day(month_add(start_of_this_month, 1))
      months == NumMonths(range_)
      start_date == month_add(start_of_this_month, -(months - 1))
  IN [range |-> range_, start_date |-> start_date,
      end_date |-> end_date, granularity |-> granularity]

build_timeframe_marketing(td, range_, granularity) ==
  LET start_of_this_month == month_floor(td)
      end_date == minus_one_day(month_add(start_of_this_month, 1))
      months == NumMonths(range_)
      start_date == month_add(start_of_this_month, -(months - 1))
  IN [range |-> range_, start_date |-> start_date,
      end_date |-> end_date, granularity |-> granularity]

build_timeframe_manufacturing(td, range_, granularity) ==
  LET end_date == minus_one_day(month_add(month_floor(td), 1))
      months == NumMonths(range_)
      start_date == month_add(month_floor(td), -(months - 1))
  IN [range |-> range_, start_date |-> start_date,
      end_date |-> end_date, granularity |-> granularity]

\* the variant with the window of the other four modules
build_timeframe_sales_short(td, range_, granularity) ==
  [range |-> range_,
   start_date |-> month_add(month_floor(td), -(NumMonths(range_) - 1)),
   end_date |-> minus_one_day(month_add(month_floor(td), 1)),
   granularity |-> granularity]

build_timeframe_sales(td, range_, granularity) ==
  LET end_date == minus_one_day(month_add(month_floor(td), 1))
      months == NumMonths(range_)
      start_date == month_add(month_floor(td), -months)
  IN [range |-> range_, start_date |-> start_date,
      end_date |-> end_date, granularity |-> granularity]

\* the variant that forgets to step back one day from the next month's first day
build_timeframe_supply_open(td, range_, granularity) ==
  [range |-> range_,
   start_date |-> month_add(month_floor(td), -NumMonths(range_)),
   end_date |-> month_add(month_floor(td), 1),
   granularity |-> granularity]

build_timeframe_supply(td, range_, granularity) ==
  LET end_date == minus_one_day(month_add(month_floor(td), 1))
      months == NumMonths(range_)
      start_date == month_add(month_floor(td), -months)
  IN [range |-> range_, start_date |-> start_date,
      end_date |-> end_date, granularity |-> granularity]

Modules == {"exec", "finance", "sales", "marketing", "supply", "manufacturing"}

build_timeframe(mod, td, range_, granularity) ==
  CASE mod = "exec"          -> build_timeframe_exec(td, range_, granularity)
    [] mod = "finance"       -> build_timeframe_finance(td, range_, granularity)
    [] mod = "sales"         -> build_timeframe_sales(td, range_, granularity)
    [] mod = "marketing"     -> build_timeframe_marketing(td, range_, granularity)
    [] mod = "supply"        -> build_timeframe_supply(td, range_, granularity)
    [] mod = "manufacturing" -> build_timeframe_manufacturing(td, range_, granularity)

\* ---------------------------------------------------------------- period enumerators
\* the while loop shared by list_periods / wanted_periods / periods
RECURSIVE period_loop(_, _, _, _)
period_loop(cur, end, granularity, out) ==
  IF ~DateLeq(cur, end) THEN out
  ELSE LET ym == strftime_ym(cur)
           out2 == IF granularity = "month" THEN Append(out, ym)
                   ELSE LET q == to_quarter_label(ym)
                        IN IF out = <<>> \/ out[Len(out)] # q
                           THEN Append(out, q) ELSE out
       IN period_loop(month_add(cur, 1), end, granularity, out2)

\* the variant that never folds months into quarters
list_periods_unfolded(tf) ==
  period_loop(month_floor(tf.start_date), tf.end_date, "month", <<>>)

list_periods(tf) ==
  period_loop(month_floor(tf.start_date), month_floor(tf.end_date),
              tf.granularity, <<>>)

finance_list_periods(tf) ==
  period_loop(month_floor(tf.start_date), month_floor(tf.end_date),
              tf.granularity, <<>>)

wanted_periods(tf) ==
  period_loop(month_floor(tf.start_date), month_floor(tf.end_date),
              tf.granularity, <<>>)

\* the variant that labels every month without merging equal neighbours
marketing_periods_unmerged(tf) ==
  LET ms == period_loop(month_floor(tf.start_date), month_floor(tf.end_date),
                        "month", <<>>)
  IN [i \in 1..Len(ms) |->
        IF tf.granularity = "month" THEN ms[i] ELSE to_quarter_label(ms[i])]

marketing_periods(tf) ==
  period_loop(month_floor(tf.start_date), month_floor(tf.end_date),
              tf.granularity, <<>>)

supply_list_periods(tf) ==
  period_loop(month_floor(tf.start_date), month_floor(tf.end_date),
              tf.granularity, <<>>)

manufacturing_periods(tf) ==
  period_loop(month_floor(tf.start_date), month_floor(tf.end_date),
              tf.granularity, <<>>)

enumerate_periods(mod, tf) ==
  CASE mod = "exec"          -> list_periods(tf)
    [] mod = "finance"       -> finance_list_periods(tf)
    [] mod = "sales"         -> wanted_periods(tf)
    [] mod = "marketing"     -> marketing_periods(tf)
    [] mod = "supply"        -> supply_list_periods(tf)
    [] mod = "manufacturing" -> manufacturing_periods(tf)

\* ---------------------------------------------------------------- numbers
\* SQL NULL / Python None is the empty set, a present value v is {v}
NULL == {}

Some(v) == {v}

The(x) == CHOOSE e \in x : TRUE

\* float(v) succeeds: v is a number, held as a fraction; a text that is no number
\* is held as [text |-> ...]
IsNumber(x) == DOMAIN x = {"n", "d"}

\* COALESCE(x, 0)  /  (x or 0)
Coalesce(x) == IF x = NULL THEN 0 ELSE The(x)

RECURSIVE Gcd(_, _)
Gcd(a, b) == IF b = 0 THEN a ELSE Gcd(b, a % b)

\* what a division by zero leaves behind: Python raises ZeroDivisionError there, and
\* every operation on the missing value passes it on
ZeroDivisionError == [n |-> 1, d |-> 0]

\* the fraction n/d in lowest terms (d > 0, n >= 0); n/0 raises
Q(n, d) ==
  IF d = 0 THEN ZeroDivisionError
  ELSE LET g == Gcd(n, d) IN [n |-> n \div g, d |-> d \div g]

QInt(i) == [n |-> i, d |-> 1]

QZero == QInt(0)

QAdd(a, b) == Q(a.n * b.d + b.n * a.d, a.d * b.d)

\* a - b (the numerator may be negative)
QSub(a, b) == Q(a.n * b.d - b.n * a.d, a.d * b.d)

QDivInt(a, c) == Q(a.n, a.d * c)

QMulInt(a, c) == Q(a.n * c, a.d)

\* a / b for b >= 0; a / 0 raises
QDiv(a, b) == IF b.d = 0 THEN ZeroDivisionError ELSE Q(a.n * b.d, a.d * b.n)

QEq(a, b) == a.n * b.d = b.n * a.d

QLeq(a, b) == a.n * b.d <= b.n * a.d

RECURSIVE QSumSeq(_)
QSumSeq(s) == IF s = <<>> THEN QZero ELSE QAdd(Head(s), QSumSeq(Tail(s)))

RECURSIVE Pow10(_)
Pow10(k) == IF k = 0 THEN 1 ELSE 10 * Pow10(k - 1)

\* round(x, k): nearest multiple of 10^-k, ties to even
round(x, k) ==
  LET s == Pow10(k)
      num == x.n * s
      fl == num \div x.d
      rem2 == 2 * (num % x.d)
      r == IF rem2 > x.d THEN fl + 1
           ELSE IF rem2 < x.d THEN fl
           ELSE IF fl % 2 = 0 THEN fl ELSE fl + 1
  IN IF x.d = 0 THEN ZeroDivisionError ELSE Q(r, s)

\* int(x) for x >= 0
int(x) == IF x.d = 0 THEN ZeroDivisionError ELSE QInt(x.n \div x.d)

Max(a, b) == IF a >= b THEN a ELSE b

\* ---------------------------------------------------------------- the store
Ym(y, m) == [y |-> y, m |-> m, q |-> 0]

\* months for which the seed script can write its monthly batch
DataMonths == {Ym(2025, 1), Ym(2025, 2), Ym(2025, 3), Ym(2025, 4)}

\* raw number a seeded month carries in its numeric columns
SeedValues == {NULL, Some(0), Some(90), Some(100), Some(120)}

\* at most this many months are seeded
MaxRows == 3

\* wall-clock dates of the aggregation runs
RunDates == {<<2025, 6, 30>>, <<2025, 8, 15>>}

Tables == {"revenue_trend", "orders", "ops_uptime", "retention_nrr",
           "pipeline_stages_daily", "pipeline_winrate", "customers",
           "page_visits", "feedback_scores", "supply_lead_time",
           "supply_inventory_turns", "supply_cogs_variance",
           "supply_cogs_breakdown", "ops_reliability", "ops_quality",
           "ops_service_cost", "devices"}

EmptyStore == [t \in Tables |-> {}]

\* the batch of month ym registers one customer, who places that month's order
CustomerId(ym) == ym.y * 12 + ym.m

\* the rows the monthly batch writes for month ym with raw number v
SeedRows(ym, v) ==
  [revenue_trend |-> {[period |-> ym, recognized |-> v, booked |-> v, backlog |-> v]},
   orders |-> {[order_date |-> <<ym.y, ym.m, 15>>, amount |-> v,
                profit |-> IF v = NULL THEN NULL ELSE Some(30),
                type |-> "subscription", customer_id |-> CustomerId(ym)]},
   ops_uptime |-> {[period |-> ym, uptime |-> v]},
   retention_nrr |-> {[period |-> ym, nrr |-> v]},
   pipeline_stages_daily |->
     {[period |-> <<ym.y, ym.m, 7>>, stage_name |-> "Leads", value |-> v],
      [period |-> <<ym.y, ym.m, 21>>, stage_name |-> "Leads", value |-> v],
      [period |-> <<ym.y, ym.m, 21>>, stage_name |-> "Won", value |-> v]},
   pipeline_winrate |-> {[period |-> ym, win_rate_pct |-> v, sales_cycle_days |-> v]},
   customers |-> {[id |-> CustomerId(ym), created_at |-> <<ym.y, ym.m, 10>>,
                   name |-> Some(ToString(CustomerId(ym))),
                   industry |-> IF ym.m % 2 = 0 THEN NULL ELSE Some("Automotive"),
                   source |-> IF ym.m % 3 = 0 THEN Some("Partner") ELSE Some("Web")]},
   page_visits |-> {[visit_date |-> <<ym.y, ym.m, 3>>, page_name |-> Some("home")],
                    [visit_date |-> <<ym.y, ym.m, 20>>, page_name |-> Some("pricing")]},
   feedback_scores |->
     {[aspect |-> "nps", created_at |-> <<ym.y, ym.m, 5>>, score |-> v],
      [aspect |-> "csat", created_at |-> <<ym.y, ym.m, 6>>, score |-> v]},
   supply_lead_time |-> {[period |-> ym, lead_time_days |-> v]},
   supply_inventory_turns |-> {[period |-> ym, turns_per_year |-> v]},
   supply_cogs_variance |-> {[period |-> ym, variance_pct |-> v]},
   supply_cogs_breakdown |-> {},
   ops_reliability |-> {[period |-> ym, mtbf_hours |-> v, mttr_hours |-> v]},
   ops_quality |-> {[period |-> ym, doa_pct |-> v, defect_pct |-> v, warranty_pct |-> v]},
   ops_service_cost |-> {[period |-> ym, cost_per_device |-> v]},
   devices |-> {}]

\* the static COGS breakdown table
CogsRows == {[component |-> "PCB", cost |-> Some(40)],
             [component |-> "Battery", cost |-> Some(60)]}

\* the static device register
DeviceRows == {[id |-> 1, fault_type |-> Some("Battery"), type |-> Some("Sensor")],
               [id |-> 2, fault_type |-> NULL, type |-> Some("Sensor")],
               [id |-> 3, fault_type |-> Some("Battery"), type |-> Some("Gateway")]}

\* the tables the monthly batch does not write
StaticStore ==
  [EmptyStore EXCEPT !["supply_cogs_breakdown"] = CogsRows, !["devices"] = DeviceRows]

SeededMonths(st) == {r.period : r \in st["revenue_trend"]}

\* a table with a row for every month: the number of consecutive seeded months
DenseCount == 7

\* the run date of the requests against the dense table
DenseToday == <<2025, 6, 30>>

\* the DenseCount months that end with the run date's month
DenseMonths == {strftime_ym(month_add(month_floor(DenseToday), -i)) : i \in 0..(DenseCount - 1)}

\* raw numbers of the dense table
DenseValues == {Some(0), Some(60), Some(600)}

\* the store with the monthly batch of value f[ym] for every dense month ym
DenseStore(f) ==
  [t \in Tables |->
     StaticStore[t] \cup UNION {SeedRows(ym, f[ym])[t] : ym \in DOMAIN f}]

\* ---------------------------------------------------------------- SQL helpers
\* WHERE period BETWEEN a AND b on "YYYY-MM" keys
BetweenYm(rows, a, b) == {r \in rows : YmLeq(a, r.period) /\ YmLeq(r.period, b)}

\* ORDER BY period on "YYYY-MM" keys
RECURSIVE order_by_period(_)
order_by_period(S) ==
  IF S = {} THEN <<>>
  ELSE LET r == CHOOSE x \in S : \A y \in S : YmLeq(x.period, y.period)
       IN <<r>> \o order_by_period(S \ {r})

\* ORDER BY period on "YYYY-MM-DD" keys
RECURSIVE order_by_day(_)
order_by_day(S) ==
  IF S = {} THEN <<>>
  ELSE LET r == CHOOSE x \in S : \A y \in S : DateLeq(x.period, y.period)
       IN <<r>> \o order_by_day(S \ {r})

Reverse(s) == [i \in 1..Len(s) |-> s[Len(s) + 1 - i]]

\* LIMIT k
Limit(s, k) == IF Len(s) <= k THEN s ELSE SubSeq(s, 1, k)

\* the labels of a series, in order
Labels(series) == [i \in 1..Len(series) |-> series[i].period]

SeqToSet(s) == {s[i] : i \in 1..Len(s)}

\* agg.get(p, default)
Get(agg, p, default) == IF p \in DOMAIN agg THEN agg[p] ELSE default

EmptyMap == [x \in {} |-> 0]


\* SUM(col): NULL when no row has a value in col
RECURSIVE sum_rows(_, _)
sum_rows(S, col) ==
  IF S = {} THEN 0
  ELSE LET r == CHOOSE x \in S : TRUE
       IN Coalesce(r[col]) + sum_rows(S \ {r}, col)

SqlSum(S, col) ==
  IF \A r \in S : r[col] = NULL THEN NULL ELSE Some(sum_rows(S, col))

\* AVG(col): NULL when no row has a value in col, else an exact fraction
SqlAvg(S, col) ==
  LET nn == {r \in S : r[col] # NULL}
  IN IF nn = {} THEN NULL ELSE Some(Q(sum_rows(nn, col), Cardinality(nn)))

\* WHERE d BETWEEN a AND b on "YYYY-MM-DD" keys held in column col
BetweenDay(rows, col, a, b) == {r \in rows : DateLeq(a, r[col]) /\ DateLeq(r[col], b)}

\* ---------------------------------------------------------------- responses
Idle == [ep |-> "idle", key |-> "", by |-> "", range |-> "", gran |-> "", status |-> 0,
         tf |-> <<>>, periods |-> <<>>, kpis |-> EmptyMap, trends |-> EmptyMap,
         breakdown |-> <<>>, error |-> ""]

Ok(ep, key, tf, ps, kpis, trends) ==
  [ep |-> ep, key |-> key, by |-> "", range |-> tf.range, gran |-> tf.granularity,
   status |-> 200, tf |-> tf, periods |-> ps, kpis |-> kpis, trends |-> trends,
   breakdown |-> <<>>, error |-> ""]

\* an uncaught exception: FastAPI answers 500 without a body
Err(ep, key, tf, ps) ==
  [ep |-> ep, key |-> key, by |-> "", range |-> tf.range, gran |-> tf.granularity,
   status |-> 500, tf |-> tf, periods |-> ps, kpis |-> EmptyMap, trends |-> EmptyMap,
   breakdown |-> <<>>, error |-> "Exception"]

\* a number of a response is missing: the division that was to yield it raised
Raised(x) == x.d = 0

\* some KPI, trend point or share of the body r was to come from a division by zero
DividedByZero(r) ==
  \/ \E k \in DOMAIN r.kpis :
       IF "value" \in DOMAIN r.kpis[k]
       THEN \/ Raised(r.kpis[k].value)
            \/ /\ "delta" \in DOMAIN r.kpis[k]
               /\ r.kpis[k].delta # NULL
               /\ Raised(The(r.kpis[k].delta))
       ELSE Raised(r.kpis[k])
  \/ \E t \in DOMAIN r.trends : \E i \in 1..Len(r.trends[t]) :
       \E f \in DOMAIN r.trends[t][i].v : Raised(r.trends[t][i].v[f])
  \/ \E i \in 1..Len(r.breakdown) : Raised(r.breakdown[i].share)

\* the handler's outcome as the client sees it: an uncaught ZeroDivisionError is a 500
Uncaught(r) ==
  IF r.status = 200 /\ DividedByZero(r)
  THEN [Err(r.ep, r.key, r.tf, r.periods) EXCEPT !.error = "ZeroDivisionError"]
  ELSE r

\* the handler runs once; its outcome is answered
Answer(out) == CHOOSE a \in {Uncaught(r) : r \in {out}} : TRUE

\* ---------------------------------------------------------------- breakdowns
\* the rows a breakdown query may return
BreakdownLimit == 20

\* ORDER BY <col> DESC; SQLite leaves the order of equal rows open, CHOOSE fixes one
RECURSIVE order_desc(_, _)
order_desc(S, col) ==
  IF S = {} THEN <<>>
  ELSE LET r == CHOOSE x \in S : \A y \in S : x[col] >= y[col]
       IN <<r>> \o order_desc(S \ {r}, col)

\* _sum over one column of the fetched rows
RECURSIVE sum_col(_, _, _)
sum_col(rows, col, i) ==
  IF i > Len(rows) THEN 0 ELSE rows[i][col] + sum_col(rows, col, i + 1)

\* the rows with value / total as share
value_rows(bd, total) ==
  [i \in 1..Len(bd) |->
     [name |-> bd[i].name, value |-> bd[i].value, share |-> Q(bd[i].value, total)]]

\* the rows with count / total as share
count_rows(bd, total) ==
  [i \in 1..Len(bd) |->
     [name |-> bd[i].name, count |-> bd[i].cnt, share |-> Q(bd[i].cnt, total)]]

\* x or 1
OrOne(x) == IF x = 0 THEN 1 ELSE x

\* the share of a total that is one too large
with_share_padded(bd) ==
  CHOOSE out \in {value_rows(rows, sum_col(rows, "value", 1) + 1) : rows \in {bd}} : TRUE

\* total = _sum(values) or 1.0; every row gets value / total.  The rows are fetched
\* once: rows ranges over the one value of bd
with_share(bd) ==
  CHOOSE out \in {value_rows(rows, OrOne(sum_col(rows, "value", 1))) : rows \in {bd}} : TRUE

\* total = sum(counts) or 1; every row gets count / total
count_share(bd) ==
  CHOOSE out \in {count_rows(rows, OrOne(sum_col(rows, "cnt", 1))) : rows \in {bd}} : TRUE

\* COALESCE(col, 'Unknown')
OrUnknown(x) == IF x = NULL THEN "Unknown" ELSE The(x)

\* COALESCE(c.<dim_col>, 'Unknown') of orders o LEFT JOIN customers c ON c.id = o.customer_id
joined_dim(st, o, dim_col) ==
  LET cs == {c \in st["customers"] : c.id = o.customer_id}
  IN IF cs = {} THEN "Unknown" ELSE OrUnknown((CHOOSE c \in cs : TRUE)[dim_col])

\* SUM(COALESCE(o.amount, 0)) of the window's orders, grouped by the dimension
orders_by_dim(st, tf, by) ==
  LET dim_col == CASE by = "customer" -> "name"
                   [] by = "industry" -> "industry"
                   [] by = "source" -> "source"
      os == BetweenDay(st["orders"], "order_date", tf.start_date, tf.end_date)
      grouped == {[name |-> n,
                   value |-> sum_rows({o \in os : joined_dim(st, o, dim_col) = n}, "amount")] :
                  n \in {joined_dim(st, o, dim_col) : o \in os}}
  IN Limit(order_desc(grouped, "value"), BreakdownLimit)

\* SELECT COALESCE(col, 'Unknown') AS name, COUNT(*) AS cnt ... GROUP BY 1 ORDER BY cnt DESC
count_by(S, col) ==
  order_desc({[name |-> n, cnt |-> Cardinality({r \in S : OrUnknown(r[col]) = n})] :
              n \in {OrUnknown(r[col]) : r \in S}}, "cnt")

\* the source mix of the customers created in the window
source_mix(st, tf) ==
  count_by(BetweenDay(st["customers"], "created_at", tf.start_date, tf.end_date), "source")

\* ---------------------------------------------------------------- executive dashboard
ZeroRev == [recognized |-> QZero, booked |-> QZero, backlog |-> QZero]

\* the `for r in rows` loop of executive_dashboard and finance_overview
\* the variant that adds the backlog up like the other two fields
revenue_step_summed(a, r) ==
  [recognized |-> QAdd(a.recognized, QInt(Coalesce(r.recognized))),
   booked |-> QAdd(a.booked, QInt(Coalesce(r.booked))),
   backlog |-> QAdd(a.backlog, QInt(Coalesce(r.backlog)))]

\* one row folded into its bucket: sums for recognized and booked, last value for backlog
revenue_step(a, r) ==
  [recognized |-> QAdd(a.recognized, QInt(Coalesce(r.recognized))),
   booked |-> QAdd(a.booked, QInt(Coalesce(r.booked))),
   backlog |-> QInt(Coalesce(r.backlog))]

RECURSIVE revenue_agg(_, _, _, _)
revenue_agg(rows, i, granularity, agg) ==
  IF i > Len(rows) THEN agg
  ELSE LET r == rows[i]
           label == IF granularity = "month" THEN r.period ELSE to_quarter_label(r.period)
           a == Get(agg, label, ZeroRev)
       IN revenue_agg(rows, i + 1, granularity, (label :> revenue_step(a, r)) @@ agg)

\* [{"period": p, **agg.get(p, default)} for p in ps]
FillSeries(ps, agg, default) ==
  [i \in 1..Len(ps) |-> [period |-> ps[i], v |-> Get(agg, ps[i], default)]]

\* float(x) raises TypeError on None
FloatRaises(rows, col) == \E i \in 1..Len(rows) : rows[i][col] = NULL

\* gm = pf / amt if amt else 0.0 ; float(pf) raises when amt is set and pf is NULL
GmRaises(st, tf) ==
  LET os == BetweenDay(st["orders"], "order_date", tf.start_date, tf.end_date)
      amt == SqlSum(os, "amount")
      pf == SqlSum(os, "profit")
  IN amt # NULL /\ The(amt) # 0 /\ pf = NULL

\* _sum([t[col] for t in trend])
SumField(series, col) == QSumSeq([i \in 1..Len(series) |-> series[i].v[col]])

\* _sum([float(r[col]) for r in rows]) on raw rows
SumRaw(rows, col) == QSumSeq([i \in 1..Len(rows) |-> QInt(Coalesce(rows[i][col]))])

\* an optional integer column value as an optional fraction
Lift(x) == IF x = NULL THEN NULL ELSE Some(QInt(The(x)))

\* the variant that never reports a zero change as flat
_delta_dir_eager(cur, prev) ==
  IF prev.n = 0 THEN [delta |-> NULL, direction |-> "flat"]
  ELSE LET frac == QDiv(QSub(cur, prev), prev)
       IN [delta |-> Some(frac), direction |-> IF frac.n >= 0 THEN "up" ELSE "down"]

\* _delta_dir: (None, "flat") without a baseline, else the relative change and its sign
_delta_dir(cur, prev) ==
  IF prev.n = 0 THEN [delta |-> NULL, direction |-> "flat"]
  ELSE LET frac == QDiv(QSub(cur, prev), prev)
       IN [delta |-> Some(frac),
           direction |-> IF frac.n > 0 THEN "up"
                         ELSE IF frac.n < 0 THEN "down" ELSE "flat"]

\* the variant that takes only values up to 1 as fractions
exec_as_fraction_strict(v) ==
  IF v = NULL \/ ~IsNumber(The(v)) THEN QZero
  ELSE IF QLeq(The(v), QInt(1)) THEN The(v) ELSE QDivInt(The(v), 100)

\* _as_fraction of executive_dashboard.py (cutoff 2)
exec_as_fraction(v) ==
  IF v = NULL \/ ~IsNumber(The(v)) THEN QZero
  ELSE IF QLeq(The(v), QInt(2)) THEN The(v) ELSE QDivInt(The(v), 100)

\* the variant that shifts the end of the previous window without its start
prev_window_short(tf, months) ==
  [start |-> month_add(tf.start_date, -(months - 1)),
   end |-> minus_one_day(month_add(month_add(month_floor(tf.end_date), -months), 1))]

\* the previous same-length window of the deltas
prev_window(tf, months) ==
  [start |-> month_add(tf.start_date, -months),
   end |-> minus_one_day(month_add(month_add(month_floor(tf.end_date), -months), 1))]

\* the variant without LIMIT 6
trailing_rows_unlimited(st, end_ym) ==
  Reverse(order_by_period({r \in st["revenue_trend"] : YmLeq(r.period, end_ym)}))

\* SELECT recognized FROM revenue_trend WHERE period <= ? ORDER BY period DESC LIMIT 6
trailing_rows(st, end_ym) ==
  Limit(Reverse(order_by_period({r \in st["revenue_trend"] : YmLeq(r.period, end_ym)})), 6)

\* avg6 = _sum([...]) / (len(trailing6) or 1)
\* the average over the number of rows, whatever it is
trailing_avg_unguarded(rows) == QDivInt(SumRaw(rows, "recognized"), Len(rows))

trailing_avg(rows) ==
  QDivInt(SumRaw(rows, "recognized"), IF Len(rows) = 0 THEN 1 ELSE Len(rows))

\* SELECT AVG(uptime) AS u FROM ops_uptime WHERE period BETWEEN ? AND ?, then
\* _as_fraction(up_row["u"])
exec_uptime(st, start_ym, end_ym) ==
  exec_as_fraction(SqlAvg(BetweenYm(st["ops_uptime"], start_ym, end_ym), "uptime"))

\* the first query: SELECT ... FROM revenue_trend WHERE period BETWEEN ? AND ?
revenue_window(td, st, range_, granularity) ==
  LET tf == build_timeframe_exec(td, range_, granularity)
  IN order_by_period(BetweenYm(st["revenue_trend"], strftime_ym(tf.start_date),
                               strftime_ym(tf.end_date)))

\* the handler from its second query on: rows is what the first query returned,
\* st the database the later queries read
executive_dashboard_rest(td, rows, st, range_, granularity) ==
  LET tf == build_timeframe_exec(td, range_, granularity)
      start_ym == strftime_ym(tf.start_date)
      end_ym == strftime_ym(tf.end_date)
      months == NumMonths(range_)
      agg == revenue_agg(rows, 1, granularity, EmptyMap)
      ps == list_periods(tf)
      trend == FillSeries(ps, agg, ZeroRev)
      sum_rec == SumField(trend, "recognized")
      sum_book == SumField(trend, "booked")
      end_backlog == IF rows # <<>> THEN QInt(Coalesce(rows[Len(rows)].backlog)) ELSE QZero
      os == BetweenDay(st["orders"], "order_date", tf.start_date, tf.end_date)
      amt == SqlSum(os, "amount")
      pf == SqlSum(os, "profit")
      gm_frac == IF amt # NULL /\ The(amt) # 0 THEN Q(Coalesce(pf), The(amt)) ELSE QZero
      uptime == exec_uptime(st, start_ym, end_ym)
      nrr_rows == Limit(Reverse(order_by_period(
                    {r \in st["retention_nrr"] : YmLeq(r.period, end_ym)})), 1)
      nrr == IF nrr_rows # <<>> THEN exec_as_fraction(Lift(nrr_rows[1].nrr)) ELSE QInt(1)
      trailing6 == trailing_rows(st, end_ym)
      avg6 == trailing_avg(trailing6)
      coverage_months == IF avg6.n > 0 THEN QDiv(end_backlog, avg6) ELSE QZero
      mrr == SqlSum({o \in st["orders"] : o.type \in {"subscription", "recurring"}
                                          /\ strftime_ym(o.order_date) = end_ym}, "amount")
      arr == IF mrr # NULL /\ The(mrr) # 0 THEN QInt(The(mrr) * 12) ELSE QZero
      last3 == Limit(Reverse(order_by_period(st["revenue_trend"])), 3)
      avg3 == QDivInt(SumRaw(last3, "recognized"), IF Len(last3) = 0 THEN 1 ELSE Len(last3))
      forecast == QDivInt(QMulInt(avg3, 102), 100)
      book_to_bill == IF sum_rec.n > 0 THEN QDiv(sum_book, sum_rec) ELSE QInt(1)
      pw == prev_window(tf, months)
      prev_rows == order_by_period(BetweenYm(st["revenue_trend"],
                     strftime_ym(pw.start), strftime_ym(pw.end)))
      prev_sum_rec == SumRaw(prev_rows, "recognized")
      prev_end_backlog == IF prev_rows # <<>>
                          THEN QInt(Coalesce(prev_rows[Len(prev_rows)].backlog)) ELSE QZero
      rev == _delta_dir(sum_rec, prev_sum_rec)
      bk == _delta_dir(end_backlog, prev_end_backlog)
      kpis == [revenue |-> [value |-> round(sum_rec, 2), delta |-> rev.delta,
                            direction |-> rev.direction],
               backlog |-> [value |-> round(end_backlog, 2), delta |-> bk.delta,
                            direction |-> bk.direction],
               uptime |-> [value |-> round(uptime, 4), delta |-> NULL, direction |-> "flat"],
               nrr |-> [value |-> round(nrr, 4), delta |-> NULL, direction |-> "flat"],
               gm |-> [value |-> round(gm_frac, 4), delta |-> NULL, direction |-> "flat"],
               payback |-> [value |-> QInt(9), delta |-> NULL, direction |-> "flat"],
               book_to_bill |-> [value |-> round(book_to_bill, 2)],
               coverage_months |-> [value |-> round(coverage_months, 1)],
               arr |-> [value |-> round(arr, 2)],
               forecast |-> [value |-> round(forecast, 2)]]
      raises == \/ GmRaises(st, tf)
                \/ FloatRaises(trailing6, "recognized")
                \/ FloatRaises(last3, "recognized")
                \/ FloatRaises(prev_rows, "recognized")
                \/ (prev_rows # <<>> /\ prev_rows[Len(prev_rows)].backlog = NULL)
  IN IF raises THEN Err("exec_overview", "", tf, ps)
     ELSE Ok("exec_overview", "", tf, ps, kpis, [revenueTrend |-> trend])

executive_dashboard(td, st, range_, granularity) ==
  executive_dashboard_rest(td, revenue_window(td, st, range_, granularity), st,
                           range_, granularity)

\* ---------------------------------------------------------------- finance overview
\* the `for r in rows` loop of finance_overview
RECURSIVE finance_revenue_agg(_, _, _, _)
finance_revenue_agg(rows, i, granularity, agg) ==
  IF i > Len(rows) THEN agg
  ELSE LET r == rows[i]
           p == r.period
           label == IF granularity = "month" THEN p ELSE to_quarter_label(p)
           a == Get(agg, label, ZeroRev)
           a2 == [recognized |-> QAdd(a.recognized, QInt(Coalesce(r.recognized))),
                  booked |-> QAdd(a.booked, QInt(Coalesce(r.booked))),
                  backlog |-> QInt(Coalesce(r.backlog))]
       IN finance_revenue_agg(rows, i + 1, granularity, (label :> a2) @@ agg)

finance_overview(td, st, range_, granularity) ==
  LET tf == build_timeframe_finance(td, range_, granularity)
      start_ym == strftime_ym(tf.start_date)
      end_ym == strftime_ym(tf.end_date)
      rows == order_by_period(BetweenYm(st["revenue_trend"], start_ym, end_ym))
      agg == finance_revenue_agg(rows, 1, granularity, EmptyMap)
      ps == finance_list_periods(tf)
      trend == FillSeries(ps, agg, ZeroRev)
      sum_rec == SumField(trend, "recognized")
      sum_book == SumField(trend, "booked")
      end_backlog == IF rows # <<>> THEN QInt(Coalesce(rows[Len(rows)].backlog)) ELSE QZero
      os == BetweenDay(st["orders"], "order_date", tf.start_date, tf.end_date)
      amt == SqlSum(os, "amount")
      pf == SqlSum(os, "profit")
      gm == IF amt # NULL /\ The(amt) # 0 THEN Q(Coalesce(pf), The(amt)) ELSE QZero
      trailing6 == Limit(Reverse(order_by_period(
                     {r \in st["revenue_trend"] : YmLeq(r.period, end_ym)})), 6)
      avg6 == QDivInt(SumRaw(trailing6, "recognized"),
                      IF Len(trailing6) = 0 THEN 1 ELSE Len(trailing6))
      coverage_months == IF avg6.n > 0 THEN QDiv(end_backlog, avg6) ELSE QZero
      mrr == SqlSum({o \in st["orders"] : o.type \in {"subscription", "recurring"}
                                          /\ strftime_ym(o.order_date) = end_ym}, "amount")
      arr == IF mrr # NULL /\ The(mrr) # 0 THEN QInt(The(mrr) * 12) ELSE QZero
      kpis == [revenue |-> round(sum_rec, 2),
               gm |-> round(gm, 4),
               backlog |-> round(end_backlog, 2),
               arr |-> round(arr, 2),
               payback |-> QInt(9),
               book_to_bill |-> round(IF sum_rec.n > 0 THEN QDiv(sum_book, sum_rec)
                                      ELSE QInt(1), 2),
               coverage_months |-> round(coverage_months, 1)]
      raises == GmRaises(st, tf) \/ FloatRaises(trailing6, "recognized")
  IN IF raises THEN Err("finance_overview", "", tf, ps)
     ELSE Ok("finance_overview", "", tf, ps, kpis, [revenueTrend |-> trend])

\* ---------------------------------------------------------------- finance drilldown
\* _as_fraction of executive_dashboard.py / finance.py (cutoff 2)
finance_as_fraction(v) ==
  IF v = NULL \/ ~IsNumber(The(v)) THEN QZero
  ELSE IF QLeq(The(v), QInt(2)) THEN The(v) ELSE QDivInt(The(v), 100)

\* key == "revenue": backlog = float(r["backlog"] or a["backlog"])
RECURSIVE drill_revenue_agg(_, _, _, _)
drill_revenue_agg(rows, i, granularity, agg) ==
  IF i > Len(rows) THEN agg
  ELSE LET r == rows[i]
           label == IF granularity = "month" THEN r.period ELSE to_quarter_label(r.period)
           a == Get(agg, label, ZeroRev)
           a2 == [recognized |-> QAdd(a.recognized, QInt(Coalesce(r.recognized))),
                  booked |-> QAdd(a.booked, QInt(Coalesce(r.booked))),
                  backlog |-> IF r.backlog = NULL \/ The(r.backlog) = 0
                              THEN a.backlog ELSE QInt(The(r.backlog))]
       IN drill_revenue_agg(rows, i + 1, granularity, (label :> a2) @@ agg)

\* key == "backlog", quarter: last_by_q[q] = float(r["backlog"])
RECURSIVE last_by_q(_, _, _)
last_by_q(rows, i, agg) ==
  IF i > Len(rows) THEN agg
  ELSE LET q == to_quarter_label(rows[i].period)
       IN last_by_q(rows, i + 1, (q :> [backlog |-> QInt(Coalesce(rows[i].backlog))]) @@ agg)

\* buckets.setdefault(q, []).append(x): per label the list of appended values
RECURSIVE bucket_lists(_, _, _, _)
bucket_lists(rows, i, col, agg) ==
  IF i > Len(rows) THEN agg
  ELSE LET q == to_quarter_label(rows[i].period)
       IN bucket_lists(rows, i + 1, col, (q :> Append(Get(agg, q, <<>>), rows[i][col])) @@ agg)

\* sum(buckets[p])/len(buckets[p]) if buckets.get(p) else 0.0
MeanSeries(ps, buckets, col) ==
  [i \in 1..Len(ps) |->
     [period |-> ps[i],
      v |-> (col :> (IF Get(buckets, ps[i], <<>>) # <<>>
                     THEN QDivInt(QSumSeq(buckets[ps[i]]), Len(buckets[ps[i]]))
                     ELSE QZero))]]

\* GROUP BY substr(order_date,1,7): one row per month with SUM(COALESCE(..,0))
gm_rows(os) ==
  order_by_period({[period |-> ym,
                    pf |-> sum_rows({o \in os : strftime_ym(o.order_date) = ym}, "profit"),
                    amt |-> sum_rows({o \in os : strftime_ym(o.order_date) = ym}, "amount")]
                   : ym \in {strftime_ym(o.order_date) : o \in os}})

RECURSIVE gm_buckets(_, _, _, _)
gm_buckets(rows, i, granularity, buckets) ==
  IF i > Len(rows) THEN buckets
  ELSE LET r == rows[i]
           p == IF granularity = "month" THEN r.period ELSE to_quarter_label(r.period)
           b == Get(buckets, p, [pf |-> 0, amt |-> 0])
       IN gm_buckets(rows, i + 1, granularity,
                     (p :> [pf |-> b.pf + r.pf, amt |-> b.amt + r.amt]) @@ buckets)

\* GROUP BY period with AVG(col)
avg_rows(rows, col) ==
  order_by_period({[period |-> p, u |-> SqlAvg({r \in rows : r.period = p}, col)]
                   : p \in {r.period : r \in rows}})

\* the NRR fallback: month-over-month recognized ratio, 1.0 without a baseline
nrr_monthly(st, tf) ==
  LET prev_start_ym == strftime_ym(month_add(month_floor(tf.start_date), -1))
      end_ym == strftime_ym(tf.end_date)
      rev == BetweenYm(st["revenue_trend"], prev_start_ym, end_ym)
      rec(ym) == IF \E r \in rev : r.period = ym
                 THEN Coalesce((CHOOSE r \in rev : r.period = ym).recognized) ELSE 0
      months_list == period_loop(month_floor(tf.start_date), month_floor(tf.end_date),
                                 "month", <<>>)
  IN [i \in 1..Len(months_list) |->
        LET ym == months_list[i]
            prev == strftime_ym(month_add(<<ym.y, ym.m, 1>>, -1))
        IN [period |-> ym,
            nrr |-> IF rec(prev) > 0 THEN Q(rec(ym), rec(prev)) ELSE QInt(1)]]

FinanceKeys == {"revenue", "backlog", "gm", "arr", "payback", "book_to_bill",
                "coverage_months", "uptime", "nrr", "forecast"}

\* td is the date build_timeframe reads at the top of the handler, ov_td the date
\* the build_timeframe of the finance_overview call reads
finance_kpi_drilldown_at(td, ov_td, st, key, by, range_, granularity) ==
  LET tf == build_timeframe_finance(td, range_, granularity)
      start_ym == strftime_ym(tf.start_date)
      end_ym == strftime_ym(tf.end_date)
      ps == finance_list_periods(tf)
      ep == "finance_drilldown"
      rev_rows == order_by_period(BetweenYm(st["revenue_trend"], start_ym, end_ym))
      \* the series is followed by the breakdown of the window's orders
      Done(trends) ==
        [Ok(ep, key, tf, ps, EmptyMap, trends)
         EXCEPT !.breakdown = with_share(orders_by_dim(st, tf, by))]
  IN CASE key = "revenue" ->
            Done(
               [series |-> FillSeries(ps, drill_revenue_agg(rev_rows, 1, granularity, EmptyMap),
                                      ZeroRev)])
       [] key = "backlog" ->
            Done(
               [series |->
                  IF granularity = "month"
                  THEN [i \in 1..Len(rev_rows) |->
                          [period |-> rev_rows[i].period,
                           v |-> [backlog |-> QInt(Coalesce(rev_rows[i].backlog))]]]
                  ELSE FillSeries(ps, last_by_q(rev_rows, 1, EmptyMap), [backlog |-> QZero])])
       [] key = "gm" ->
            LET rows == gm_rows(BetweenDay(st["orders"], "order_date",
                                           tf.start_date, tf.end_date))
                buckets == gm_buckets(rows, 1, granularity, EmptyMap)
            IN IF \E i \in 1..Len(ps) : ps[i] \notin DOMAIN buckets
               THEN Err(ep, key, tf, ps)     \* buckets[p] raises KeyError
               ELSE Done(
                       [series |-> [i \in 1..Len(ps) |->
                          [period |-> ps[i],
                           v |-> [gm |-> IF buckets[ps[i]].amt # 0
                                         THEN Q(buckets[ps[i]].pf, buckets[ps[i]].amt)
                                         ELSE QZero]]]])
       [] key = "uptime" ->
            LET rows == avg_rows(BetweenYm(st["ops_uptime"], start_ym, end_ym), "uptime")
                fr == [i \in 1..Len(rows) |->
                         [period |-> rows[i].period, uptime |-> finance_as_fraction(rows[i].u)]]
            IN Done(
                  [series |->
                     IF granularity = "month"
                     THEN [i \in 1..Len(fr) |->
                             [period |-> fr[i].period, v |-> [uptime |-> fr[i].uptime]]]
                     ELSE MeanSeries(ps, bucket_lists(fr, 1, "uptime", EmptyMap), "uptime")])
       [] key = "nrr" ->
            LET rows == order_by_period(BetweenYm(st["retention_nrr"], start_ym, end_ym))
                fr == [i \in 1..Len(rows) |->
                         [period |-> rows[i].period,
                          nrr |-> finance_as_fraction(Lift(rows[i].nrr))]]
                monthly == nrr_monthly(st, tf)
            IN Done(
                  [series |->
                     IF Len(rows) >= 2
                     THEN IF granularity = "month"
                          THEN [i \in 1..Len(fr) |->
                                  [period |-> fr[i].period, v |-> [nrr |-> fr[i].nrr]]]
                          ELSE MeanSeries(ps, bucket_lists(fr, 1, "nrr", EmptyMap), "nrr")
                     ELSE IF granularity = "month"
                          THEN [i \in 1..Len(monthly) |->
                                  [period |-> monthly[i].period, v |-> [nrr |-> monthly[i].nrr]]]
                          ELSE MeanSeries(ps, bucket_lists(monthly, 1, "nrr", EmptyMap), "nrr")])
       [] OTHER ->
            \* arr, payback, book_to_bill, coverage_months, forecast:
            \* the overview's KPI spread evenly over the periods
            LET ov == finance_overview(ov_td, st, range_, "month")
                total == IF key \in DOMAIN ov.kpis THEN ov.kpis[key] ELSE QZero
                avg == QDivInt(total, IF Len(ps) = 0 THEN 1 ELSE Len(ps))
            IN IF ov.status # 200 THEN Err(ep, key, tf, ps)
               ELSE Done(
                       [series |-> [i \in 1..Len(ps) |->
                                      [period |-> ps[i], v |-> [value |-> avg]]]])

\* the date does not change while the handler runs
finance_kpi_drilldown(td, st, key, by, range_, granularity) ==
  finance_kpi_drilldown_at(td, td, st, key, by, range_, granularity)

\* ---------------------------------------------------------------- sales
ZeroStages == [Leads |-> QZero, MQL |-> QZero, SQL |-> QZero, Won |-> QZero]

ZeroStagesLower == [leads |-> QZero, mql |-> QZero, sql |-> QZero, won |-> QZero]

\* str.lower() on the stage names
Lower(name) ==
  CASE name = "Leads" -> "leads" [] name = "MQL" -> "mql"
    [] name = "SQL" -> "sql" [] name = "Won" -> "won" [] OTHER -> name

\* overview: a[stage] = a.get(stage, 0.0) + float(value or 0), label from day[:7]
RECURSIVE pipeline_agg(_, _, _, _)
pipeline_agg(rows, i, granularity, agg) ==
  IF i > Len(rows) THEN agg
  ELSE LET r == rows[i]
           ym == strftime_ym(r.period)
           label == IF granularity = "month" THEN ym ELSE to_quarter_label(ym)
           a == Get(agg, label, ZeroStages)
           a2 == (r.stage_name :> QAdd(Get(a, r.stage_name, QZero), QInt(Coalesce(r.value)))) @@ a
       IN pipeline_agg(rows, i + 1, granularity, (label :> a2) @@ agg)

\* drilldown: the same loop on lower-cased stage names
RECURSIVE drill_pipeline_agg(_, _, _, _)
drill_pipeline_agg(rows, i, granularity, agg) ==
  IF i > Len(rows) THEN agg
  ELSE LET r == rows[i]
           ym == strftime_ym(r.period)
           label == IF granularity = "month" THEN ym ELSE to_quarter_label(ym)
           a == Get(agg, label, ZeroStagesLower)
           k == Lower(r.stage_name)
           a2 == (k :> QAdd(Get(a, k, QZero), QInt(Coalesce(r.value)))) @@ a
       IN drill_pipeline_agg(rows, i + 1, granularity, (label :> a2) @@ agg)

ZeroWr == [win_rate_pct |-> QZero, sales_cycle_days |-> QZero]

\* the win-rate loop: sums and row counts of the labels in `want`
RECURSIVE winrate_agg(_, _, _, _, _)
winrate_agg(rows, i, granularity, want, acc) ==
  IF i > Len(rows) THEN acc
  ELSE LET r == rows[i]
           label == IF granularity = "month" THEN r.period ELSE to_quarter_label(r.period)
           obj == Get(acc.agg, label, ZeroWr)
           obj2 == [win_rate_pct |-> QAdd(obj.win_rate_pct, QInt(Coalesce(r.win_rate_pct))),
                    sales_cycle_days |-> QAdd(obj.sales_cycle_days,
                                              QInt(Coalesce(r.sales_cycle_days)))]
       IN IF label \in want
          THEN winrate_agg(rows, i + 1, granularity, want,
                           [agg |-> (label :> obj2) @@ acc.agg,
                            cnt |-> (label :> (Get(acc.cnt, label, 0) + 1)) @@ acc.cnt])
          ELSE winrate_agg(rows, i + 1, granularity, want, acc)

\* the variant that emits a point only for the labels that have rows
winrate_series_sparse(want_list, acc) ==
  LET has(p) == p \in DOMAIN acc.cnt
      ps == SelectSeq(want_list, has)
  IN [i \in 1..Len(ps) |->
        [period |-> ps[i],
         v |-> [win_rate_pct |-> QDivInt(acc.agg[ps[i]].win_rate_pct, acc.cnt[ps[i]]),
                sales_cycle_days |-> QDivInt(acc.agg[ps[i]].sales_cycle_days,
                                             acc.cnt[ps[i]])]]]

\* c = cnt.get(p, 1); x/c if c else 0.0
winrate_series(want_list, acc) ==
  [i \in 1..Len(want_list) |->
     LET p == want_list[i]
         c == Get(acc.cnt, p, 1)
         x == Get(acc.agg, p, ZeroWr)
     IN [period |-> p,
         v |-> [win_rate_pct |-> IF c # 0 THEN QDivInt(x.win_rate_pct, c) ELSE QZero,
                sales_cycle_days |-> IF c # 0 THEN QDivInt(x.sales_cycle_days, c) ELSE QZero]]]

sales_overview(td, st, range_, granularity) ==
  LET tf == build_timeframe_sales(td, range_, granularity)
      want_list == wanted_periods(tf)
      want == SeqToSet(want_list)
      rows == order_by_day(BetweenDay(st["pipeline_stages_daily"], "period",
                                      tf.start_date, tf.end_date))
      agg == pipeline_agg(rows, 1, granularity, EmptyMap)
      pipelineTrend ==
        [i \in 1..Len(want_list) |->
           LET a == Get(agg, want_list[i], ZeroStages)
           IN [period |-> want_list[i],
               v |-> [leads |-> Get(a, "Leads", QZero), mql |-> Get(a, "MQL", QZero),
                      sql |-> Get(a, "SQL", QZero), won |-> Get(a, "Won", QZero)]]]
      wr_all == order_by_period(st["pipeline_winrate"])
      acc == winrate_agg(wr_all, 1, granularity, want, [agg |-> EmptyMap, cnt |-> EmptyMap])
  IN Ok("sales_overview", "", tf, want_list, EmptyMap,
        [pipelineTrend |-> pipelineTrend, winrateTrend |-> winrate_series(want_list, acc)])

\* GROUP BY substr(col,1,7): the months that have a row
MonthsOf(rows, col) == {strftime_ym(r[col]) : r \in rows}

\* buckets[p] = float(x or 0): a later month of the same label overwrites an earlier one
RECURSIVE overwrite_buckets(_, _, _, _)
overwrite_buckets(rows, i, granularity, buckets) ==
  IF i > Len(rows) THEN buckets
  ELSE LET p == IF granularity = "month" THEN rows[i].period
                ELSE to_quarter_label(rows[i].period)
       IN overwrite_buckets(rows, i + 1, granularity, (p :> rows[i].x) @@ buckets)

SalesKeys == {"pipeline", "win_rate", "sales_cycle", "avg_deal", "new_customers", "revenue"}

OrderBys == {"customer", "industry", "source"}

sales_kpi_drilldown(td, st, key, by, range_, granularity) ==
  LET tf == build_timeframe_sales(td, range_, granularity)
      want_list == wanted_periods(tf)
      want == SeqToSet(want_list)
      ep == "sales_drilldown"
      os == BetweenDay(st["orders"], "order_date", tf.start_date, tf.end_date)
      cs == BetweenDay(st["customers"], "created_at", tf.start_date, tf.end_date)
      series ==
        CASE key = "pipeline" ->
               FillSeries(want_list,
                          drill_pipeline_agg(order_by_day(BetweenDay(st["pipeline_stages_daily"],
                                               "period", tf.start_date, tf.end_date)),
                                             1, granularity, EmptyMap),
                          ZeroStagesLower)
          [] key \in {"win_rate", "sales_cycle"} ->
               winrate_series(want_list,
                              winrate_agg(order_by_period(st["pipeline_winrate"]), 1,
                                          granularity, want,
                                          [agg |-> EmptyMap, cnt |-> EmptyMap]))
          [] key = "avg_deal" ->
               LET rows == order_by_period(
                             {[period |-> ym,
                               x |-> [value |->
                                  LET a == SqlAvg({o \in os : strftime_ym(o.order_date) = ym},
                                                  "amount")
                                  IN IF a = NULL THEN QZero ELSE The(a)]]
                              : ym \in MonthsOf(os, "order_date")})
               IN FillSeries(want_list, overwrite_buckets(rows, 1, granularity, EmptyMap),
                             [value |-> QZero])
          [] key = "new_customers" ->
               LET rows == order_by_period(
                             {[period |-> ym,
                               x |-> [value |->
                                  QInt(Cardinality({c \in cs : strftime_ym(c.created_at) = ym}))]]
                              : ym \in MonthsOf(cs, "created_at")})
               IN FillSeries(want_list, overwrite_buckets(rows, 1, granularity, EmptyMap),
                             [value |-> QZero])
          [] OTHER ->
               LET rows == order_by_period(
                             {[period |-> ym,
                               x |-> [recognized |->
                                  QInt(Coalesce(SqlSum({o \in os : strftime_ym(o.order_date) = ym},
                                                       "amount")))]]
                              : ym \in MonthsOf(os, "order_date")})
               IN FillSeries(want_list, overwrite_buckets(rows, 1, granularity, EmptyMap),
                             [recognized |-> QZero])
  IN [Ok(ep, key, tf, want_list, EmptyMap, [series |-> series])
      EXCEPT !.breakdown = with_share(orders_by_dim(st, tf, by))]

\* ---------------------------------------------------------------- supply
\* group_avg of supply_overview: mean of the rows of each label in `want`
RECURSIVE group_sum_cnt(_, _, _, _, _, _)
group_sum_cnt(rows, i, value_key, granularity, want, acc) ==
  IF i > Len(rows) THEN acc
  ELSE LET r == rows[i]
           ym == r.period
           label == IF granularity = "month" THEN ym ELSE to_quarter_label(ym)
       IN IF label \in want
          THEN group_sum_cnt(rows, i + 1, value_key, granularity, want,
                 [agg |-> (label :> QAdd(Get(acc.agg, label, QZero),
                                         QInt(Coalesce(r[value_key])))) @@ acc.agg,
                  cnt |-> (label :> (Get(acc.cnt, label, 0) + 1)) @@ acc.cnt])
          ELSE group_sum_cnt(rows, i + 1, value_key, granularity, want, acc)

\* the variant that reports the bucket's sum
group_avg_undivided(rows, value_key, granularity, want_list) ==
  LET acc == group_sum_cnt(rows, 1, value_key, granularity, SeqToSet(want_list),
                           [agg |-> EmptyMap, cnt |-> EmptyMap])
  IN [i \in 1..Len(want_list) |->
        [period |-> want_list[i],
         v |-> (value_key :> Get(acc.agg, want_list[i], QZero))]]

group_avg(rows, value_key, granularity, want_list) ==
  LET acc == group_sum_cnt(rows, 1, value_key, granularity, SeqToSet(want_list),
                           [agg |-> EmptyMap, cnt |-> EmptyMap])
  IN [i \in 1..Len(want_list) |->
        LET p == want_list[i]
            c == Get(acc.cnt, p, 0)
        IN [period |-> p,
            v |-> (value_key :> (IF c # 0 THEN QDivInt(Get(acc.agg, p, QZero), c)
                                 ELSE QZero))]]

\* the three inline copies of the loop in supply_kpi_drilldown
drill_group_avg(rows, value_key, granularity, want_list) ==
  LET acc == group_sum_cnt(rows, 1, value_key, granularity, SeqToSet(want_list),
                           [agg |-> EmptyMap, cnt |-> EmptyMap])
  IN [i \in 1..Len(want_list) |->
        LET p == want_list[i]
            c == Get(acc.cnt, p, 0)
        IN [period |-> p,
            v |-> (value_key :> (IF c # 0 THEN QDivInt(Get(acc.agg, p, QZero), c)
                                 ELSE QZero))]]

\* the rows of the static COGS table with float(cost or 0) as value
cogs_rows(st) ==
  order_desc({[name |-> r.component, value |-> Coalesce(r.cost)] :
              r \in st["supply_cogs_breakdown"]}, "value")

\* avg_from_rows: (sum(vals) / len(vals)) if vals else 0.0, vals = float(r[col] or 0)
avg_from_rows(rows, col) ==
  IF rows # <<>> THEN QDivInt(SumRaw(rows, col), Len(rows)) ELSE QZero

supply_overview(td, st, range_, granularity) ==
  LET tf == build_timeframe_supply(td, range_, granularity)
      want_list == supply_list_periods(tf)
      a == strftime_ym(tf.start_date)
      b == strftime_ym(tf.end_date)
      lead_rows == order_by_period(BetweenYm(st["supply_lead_time"], a, b))
      inv_rows == order_by_period(BetweenYm(st["supply_inventory_turns"], a, b))
      var_rows == order_by_period(BetweenYm(st["supply_cogs_variance"], a, b))
      kpis == [lead_time |-> avg_from_rows(lead_rows, "lead_time_days"),
               inventory_turns |-> avg_from_rows(inv_rows, "turns_per_year"),
               cogs_variance |-> avg_from_rows(var_rows, "variance_pct"),
               cogs_total |-> QInt(sum_rows(st["supply_cogs_breakdown"], "cost"))]
  IN [Ok("supply_overview", "", tf, want_list, kpis,
         [leadTimeTrend |-> group_avg(lead_rows, "lead_time_days", granularity, want_list),
          inventoryTurnsTrend |-> group_avg(inv_rows, "turns_per_year", granularity, want_list),
          cogsVarianceTrend |-> group_avg(var_rows, "variance_pct", granularity, want_list)])
      EXCEPT !.breakdown = with_share(cogs_rows(st))]

SupplyKeys == {"lead_time", "inventory_turns", "cogs_variance", "cogs_total"}

supply_kpi_drilldown(td, st, key, range_, granularity) ==
  LET tf == build_timeframe_supply(td, range_, granularity)
      want_list == supply_list_periods(tf)
      a == strftime_ym(tf.start_date)
      b == strftime_ym(tf.end_date)
      series ==
        CASE key = "lead_time" ->
               drill_group_avg(order_by_period(BetweenYm(st["supply_lead_time"], a, b)),
                               "lead_time_days", granularity, want_list)
          [] key = "inventory_turns" ->
               drill_group_avg(order_by_period(BetweenYm(st["supply_inventory_turns"], a, b)),
                               "turns_per_year", granularity, want_list)
          [] key = "cogs_variance" ->
               drill_group_avg(order_by_period(BetweenYm(st["supply_cogs_variance"], a, b)),
                               "variance_pct", granularity, want_list)
          [] OTHER ->
               LET total == QInt(sum_rows(st["supply_cogs_breakdown"], "cost"))
               IN [i \in 1..Len(want_list) |->
                     [period |-> want_list[i], v |-> [value |-> total]]]
  IN [Ok("supply_drilldown", key, tf, want_list, EmptyMap, [series |-> series])
      EXCEPT !.breakdown = with_share(cogs_rows(st))]

\* ---------------------------------------------------------------- marketing
\* float(x or 0) on an optional fraction
CoalQ(x) == IF x = NULL THEN QZero ELSE The(x)

\* _agg(rows, keys, granularity, tf_ps): per label the sums of the keys and the row count
RECURSIVE marketing_agg(_, _, _, _, _, _)
marketing_agg(rows, i, keys, granularity, tf_ps, acc) ==
  IF i > Len(rows) THEN acc
  ELSE LET r == rows[i]
           p == IF granularity = "month" THEN r.period ELSE to_quarter_label(r.period)
           slot == Get(acc.agg, p, [k \in keys |-> QZero])
           slot2 == [k \in keys |-> QAdd(slot[k], CoalQ(r[k]))]
       IN IF p \notin SeqToSet(tf_ps)
          THEN marketing_agg(rows, i + 1, keys, granularity, tf_ps, acc)
          ELSE marketing_agg(rows, i + 1, keys, granularity, tf_ps,
                 [agg |-> (p :> slot2) @@ acc.agg,
                  cnt |-> (p :> (Get(acc.cnt, p, 0) + 1)) @@ acc.cnt])

NoAcc == [agg |-> EmptyMap, cnt |-> EmptyMap]

\* SELECT substr(visit_date,1,7), COUNT(*) ... GROUP BY period ORDER BY period
visit_rows(st, tf) ==
  LET vs == BetweenDay(st["page_visits"], "visit_date", tf.start_date, tf.end_date)
  IN order_by_period({[period |-> ym,
                       visits |-> Some(QInt(Cardinality(
                                    {x \in vs : strftime_ym(x.visit_date) = ym})))]
                      : ym \in MonthsOf(vs, "visit_date")})

\* SUM(CASE WHEN stage_name = s THEN value ELSE 0 END) per month
funnel_rows(st, tf) ==
  LET ds == BetweenDay(st["pipeline_stages_daily"], "period", tf.start_date, tf.end_date)
      stage(ym, nm) == Some(QInt(sum_rows({x \in ds : strftime_ym(x.period) = ym
                                                       /\ x.stage_name = nm}, "value")))
  IN order_by_period({[period |-> ym, leads |-> stage(ym, "Leads"),
                       mql |-> stage(ym, "MQL"), sql |-> stage(ym, "SQL")]
                      : ym \in MonthsOf(ds, "period")})

\* SELECT substr(created_at,1,7), AVG(score) ... WHERE aspect = ? GROUP BY month
score_rows(st, tf, aspect) ==
  LET fs == {x \in BetweenDay(st["feedback_scores"], "created_at",
                              tf.start_date, tf.end_date) : x.aspect = aspect}
  IN order_by_period({[period |-> ym,
                       avg_score |-> SqlAvg({x \in fs : strftime_ym(x.created_at) = ym},
                                            "score")]
                      : ym \in MonthsOf(fs, "created_at")})

\* _avg_aspect: s / c if c else 0.0 for every p in tf_ps
avg_aspect(st, tf, tf_ps, aspect) ==
  LET acc == marketing_agg(score_rows(st, tf, aspect), 1, {"avg_score"},
                           tf.granularity, tf_ps, NoAcc)
  IN [p \in SeqToSet(tf_ps) |->
        LET s == Get(Get(acc.agg, p, EmptyMap), "avg_score", QZero)
            c == Get(acc.cnt, p, 0)
        IN IF c # 0 THEN QDivInt(s, c) ELSE QZero]

\* a.get(p, {}).get(k, 0)
Get2(agg, p, k) == Get(Get(agg, p, EmptyMap), k, QZero)

\* the three NPS buckets of the window's scores, over max(1, dtrs + passv + promo)
nps_buckets(st, tf) ==
  LET scored == {x \in BetweenDay(st["feedback_scores"], "created_at",
                                  tf.start_date, tf.end_date) :
                   x.aspect = "nps" /\ x.score # NULL}
      dtrs == Cardinality({x \in scored : The(x.score) >= 0 /\ The(x.score) <= 6})
      passv == Cardinality({x \in scored : The(x.score) \in {7, 8}})
      promo == Cardinality({x \in scored : The(x.score) \in {9, 10}})
      tot == IF dtrs + passv + promo > 1 THEN dtrs + passv + promo ELSE 1
  IN <<[name |-> "Detractors (0-6)", count |-> dtrs, share |-> Q(dtrs, tot)],
       [name |-> "Passives (7-8)", count |-> passv, share |-> Q(passv, tot)],
       [name |-> "Promoters (9-10)", count |-> promo, share |-> Q(promo, tot)]>>

\* the window's CSAT scores: GROUP BY CAST(score AS INTEGER), a NULL score in a NULL bucket
csat_rows(st, tf) ==
  {x \in BetweenDay(st["feedback_scores"], "created_at", tf.start_date, tf.end_date) :
     x.aspect = "csat"}

\* int(r["bucket"]) raises TypeError on the NULL bucket
csat_raises(st, tf) == \E x \in csat_rows(st, tf) : x.score = NULL

csat_buckets(st, tf) ==
  LET rows == csat_rows(st, tf)
      grouped == {[bucket |-> b, cnt |-> Cardinality({x \in rows : x.score = Some(b)})] :
                  b \in {The(x.score) : x \in {y \in rows : y.score # NULL}}}
      bd_rows == Reverse(order_desc(grouped, "bucket"))
  IN count_share([i \in 1..Len(bd_rows) |->
                    [name |-> ToString(bd_rows[i].bucket) \o "*", cnt |-> bd_rows[i].cnt]])

\* the breakdown of a marketing drilldown
\* the dimension the breakdown of a metric is grouped by, given the requested one
marketing_dimension(key, by) ==
  CASE key = "visits" /\ by = "page" -> "page"
    [] key \in {"nps", "csat"} /\ by = "bucket" -> "bucket"
    [] OTHER -> "source"

marketing_breakdown(st, tf, key, by) ==
  CASE key = "visits" /\ marketing_dimension(key, by) = "page" ->
         count_share(Limit(count_by(BetweenDay(st["page_visits"], "visit_date",
                                               tf.start_date, tf.end_date), "page_name"),
                           BreakdownLimit))
    [] key = "nps" /\ marketing_dimension(key, by) = "bucket" -> nps_buckets(st, tf)
    [] key = "csat" /\ marketing_dimension(key, by) = "bucket" -> csat_buckets(st, tf)
    [] OTHER -> count_share(Limit(source_mix(st, tf), BreakdownLimit))

\* sum(agg.get(p, {}).get(k, 0.0) for p in tf_ps)
total_of(agg, k, tf_ps) == QSumSeq([i \in 1..Len(tf_ps) |-> Get2(agg, tf_ps[i], k)])

\* sum(values) / max(1, number of values above 0) if any value is nonzero else 0.0
avg_positive(avg_map, tf_ps) ==
  LET vals == [i \in 1..Len(tf_ps) |-> avg_map[tf_ps[i]]]
      positive == SelectSeq(vals, LAMBDA x : x.n > 0)
  IN IF \E i \in 1..Len(vals) : vals[i].n # 0
     THEN QDivInt(QSumSeq(vals), Max(1, Len(positive)))
     ELSE QZero

\* (leads_total / visits_total * 100.0) if visits_total > 0 else 0.0
conversion_pct(leads, visits) ==
  IF visits.n > 0 THEN QMulInt(QDiv(leads, visits), 100) ELSE QZero

marketing_overview(td, st, range_, granularity) ==
  LET tf == build_timeframe_marketing(td, range_, granularity)
      tf_ps == marketing_periods(tf)
      v_agg == marketing_agg(visit_rows(st, tf), 1, {"visits"}, granularity, tf_ps, NoAcc).agg
      f_agg == marketing_agg(funnel_rows(st, tf), 1, {"leads", "mql", "sql"},
                             granularity, tf_ps, NoAcc).agg
      nps_avg_map == avg_aspect(st, tf, tf_ps, "nps")
      csat_avg_map == avg_aspect(st, tf, tf_ps, "csat")
      kpis == [visits |-> round(total_of(v_agg, "visits", tf_ps), 0),
               leads |-> round(total_of(f_agg, "leads", tf_ps), 0),
               mql |-> round(total_of(f_agg, "mql", tf_ps), 0),
               sql |-> round(total_of(f_agg, "sql", tf_ps), 0),
               nps |-> round(avg_positive(nps_avg_map, tf_ps), 1),
               csat |-> round(avg_positive(csat_avg_map, tf_ps), 1),
               conversion |-> round(conversion_pct(total_of(f_agg, "leads", tf_ps),
                                                   total_of(v_agg, "visits", tf_ps)), 2)]
  IN [Ok("marketing_overview", "", tf, tf_ps, kpis,
        [visitsTrend |-> [i \in 1..Len(tf_ps) |->
           [period |-> tf_ps[i], v |-> [visits |-> int(Get2(v_agg, tf_ps[i], "visits"))]]],
         funnelTrend |-> [i \in 1..Len(tf_ps) |->
           [period |-> tf_ps[i],
            v |-> [leads |-> int(Get2(f_agg, tf_ps[i], "leads")),
                   mql |-> int(Get2(f_agg, tf_ps[i], "mql")),
                   sql |-> int(Get2(f_agg, tf_ps[i], "sql"))]]],
         npsTrend |-> [i \in 1..Len(tf_ps) |->
           [period |-> tf_ps[i], v |-> [nps |-> round(nps_avg_map[tf_ps[i]], 1)]]],
         csatTrend |-> [i \in 1..Len(tf_ps) |->
           [period |-> tf_ps[i], v |-> [csat |-> round(csat_avg_map[tf_ps[i]], 2)]]]])
      EXCEPT !.breakdown = count_share(source_mix(st, tf))]

MarketingKeys == {"visits", "leads", "mql", "sql", "nps", "csat", "conversion"}

MarketingBys == {"page", "source", "bucket"}

marketing_kpi_drilldown(td, st, key, by, range_, granularity) ==
  LET tf == build_timeframe_marketing(td, range_, granularity)
      tf_ps == marketing_periods(tf)
      series ==
        CASE key = "visits" ->
               LET a == marketing_agg(visit_rows(st, tf), 1, {"visits"},
                                      granularity, tf_ps, NoAcc).agg
               IN [i \in 1..Len(tf_ps) |->
                     [period |-> tf_ps[i], v |-> [visits |-> int(Get2(a, tf_ps[i], "visits"))]]]
          [] key \in {"leads", "mql", "sql"} ->
               LET a == marketing_agg(funnel_rows(st, tf), 1, {"leads", "mql", "sql"},
                                      granularity, tf_ps, NoAcc).agg
               IN [i \in 1..Len(tf_ps) |->
                     [period |-> tf_ps[i], v |-> (key :> int(Get2(a, tf_ps[i], key)))]]
          [] key \in {"nps", "csat"} ->
               LET acc == marketing_agg(score_rows(st, tf, key), 1, {"avg_score"},
                                        granularity, tf_ps, NoAcc)
               IN [i \in 1..Len(tf_ps) |->
                     LET s == Get2(acc.agg, tf_ps[i], "avg_score")
                         c == Get(acc.cnt, tf_ps[i], 0)
                     IN [period |-> tf_ps[i],
                         v |-> (key :> (IF c # 0 THEN QDivInt(s, c) ELSE QZero))]]
          [] OTHER ->
               LET v_agg == marketing_agg(visit_rows(st, tf), 1, {"visits"},
                                          granularity, tf_ps, NoAcc).agg
                   f_agg == marketing_agg(funnel_rows(st, tf), 1, {"leads"},
                                          granularity, tf_ps, NoAcc).agg
               IN [i \in 1..Len(tf_ps) |->
                     LET visits == Get2(v_agg, tf_ps[i], "visits")
                         leads == Get2(f_agg, tf_ps[i], "leads")
                         conv == conversion_pct(leads, visits)
                     IN [period |-> tf_ps[i], v |-> [conversion |-> round(conv, 2)]]]
  IN IF key = "csat" /\ by = "bucket" /\ csat_raises(st, tf)
     THEN Err("marketing_drilldown", key, tf, tf_ps)
     ELSE [Ok("marketing_drilldown", key, tf, tf_ps, EmptyMap, [series |-> series])
           EXCEPT !.breakdown = marketing_breakdown(st, tf, key, by)]

\* ---------------------------------------------------------------- manufacturing
\* _as_fraction of manufacturing.py (cutoff 1.5)
\* the variant with the cutoff of the other modules
manufacturing_as_fraction_wide(v) ==
  IF v = NULL \/ ~IsNumber(The(v)) THEN QZero
  ELSE IF QLeq(The(v), QInt(2)) THEN The(v) ELSE QDivInt(The(v), 100)

manufacturing_as_fraction(v) ==
  IF v = NULL \/ ~IsNumber(The(v)) THEN QZero
  ELSE IF QLeq(The(v), Q(3, 2)) THEN The(v) ELSE QDivInt(The(v), 100)

_to_percent(v) == QMulInt(manufacturing_as_fraction(v), 100)

\* the bucketing loop of _agg_avg: rows whose label is not in tf_periods are skipped
RECURSIVE agg_avg_loop(_, _, _, _, _, _)
agg_avg_loop(rows, i, keys, granularity, tf_periods, acc) ==
  IF i > Len(rows) THEN acc
  ELSE LET r == rows[i]
           p == IF granularity = "month" THEN r.period ELSE to_quarter_label(r.period)
           a == Get(acc.agg, p, [k \in keys |-> QZero])
           a2 == [k \in keys |-> QAdd(a[k], r[k])]
       IN IF p \notin SeqToSet(tf_periods)
          THEN agg_avg_loop(rows, i + 1, keys, granularity, tf_periods, acc)
          ELSE agg_avg_loop(rows, i + 1, keys, granularity, tf_periods,
                 [agg |-> (p :> a2) @@ acc.agg,
                  cnt |-> (p :> (Get(acc.cnt, p, 0) + 1)) @@ acc.cnt])

_agg_avg(rows, keys, granularity, tf_periods) ==
  LET acc == agg_avg_loop(rows, 1, keys, granularity, tf_periods, NoAcc)
  IN [p \in DOMAIN acc.agg |->
        [k \in keys |-> QDivInt(acc.agg[p][k], Max(1, Get(acc.cnt, p, 1)))]]

\* SELECT period, uptime FROM ops_uptime ORDER BY period, then _to_percent
uptime_rows(st) ==
  LET raw == order_by_period(st["ops_uptime"])
  IN [i \in 1..Len(raw) |->
        [period |-> raw[i].period, uptime |-> _to_percent(Lift(raw[i].uptime))]]

reliability_rows(st) ==
  LET raw == order_by_period(st["ops_reliability"])
  IN [i \in 1..Len(raw) |->
        [period |-> raw[i].period, mtbf |-> QInt(Coalesce(raw[i].mtbf_hours)),
         mttr |-> QInt(Coalesce(raw[i].mttr_hours))]]

quality_rows(st) ==
  LET raw == order_by_period(st["ops_quality"])
  IN [i \in 1..Len(raw) |->
        [period |-> raw[i].period, doa |-> _to_percent(Lift(raw[i].doa_pct)),
         defect |-> _to_percent(Lift(raw[i].defect_pct)),
         warranty |-> _to_percent(Lift(raw[i].warranty_pct))]]

cost_rows(st) ==
  LET raw == order_by_period(st["ops_service_cost"])
  IN [i \in 1..Len(raw) |->
        [period |-> raw[i].period,
         cost_per_device |-> QInt(Coalesce(raw[i].cost_per_device))]]

\* [{"period": p, k: round(agg.get(p, {}).get(k, 0.0), digits)} for p in tf_ps]
RoundedSeries(tf_ps, agg, keys, digits) ==
  [i \in 1..Len(tf_ps) |->
     [period |-> tf_ps[i],
      v |-> [k \in keys |-> round(Get2(agg, tf_ps[i], k), digits)]]]

\* the devices counted by fault_type or by type, whatever the window
devices_breakdown(st, by) ==
  count_share(count_by(st["devices"], IF by = "fault_type" THEN "fault_type" ELSE "type"))

\* vals = [agg[p][key] for p in tf_ps if p in agg]
avg_vals(agg, key, tf_ps) ==
  LET present == SelectSeq(tf_ps, LAMBDA p : p \in DOMAIN agg)
  IN [i \in 1..Len(present) |-> agg[present[i]][key]]

\* _avg_of: (sum(vals) / max(1, len(vals))) if vals else 0.0
_avg_of(agg, key, tf_ps) ==
  LET vals == avg_vals(agg, key, tf_ps)
  IN IF vals # <<>> THEN QDivInt(QSumSeq(vals), Max(1, Len(vals))) ELSE QZero

manufacturing_overview(td, st, range_, granularity) ==
  LET tf == build_timeframe_manufacturing(td, range_, granularity)
      tf_ps == manufacturing_periods(tf)
      up_agg == _agg_avg(uptime_rows(st), {"uptime"}, granularity, tf_ps)
      rel_agg == _agg_avg(reliability_rows(st), {"mtbf", "mttr"}, granularity, tf_ps)
      q_agg == _agg_avg(quality_rows(st), {"doa", "defect", "warranty"}, granularity, tf_ps)
      c_agg == _agg_avg(cost_rows(st), {"cost_per_device"}, granularity, tf_ps)
      kpis == [uptime |-> round(_avg_of(up_agg, "uptime", tf_ps), 3),
               mtbf |-> round(_avg_of(rel_agg, "mtbf", tf_ps), 1),
               mttr |-> round(_avg_of(rel_agg, "mttr", tf_ps), 1),
               doa |-> round(_avg_of(q_agg, "doa", tf_ps), 2),
               defect |-> round(_avg_of(q_agg, "defect", tf_ps), 2),
               warranty |-> round(_avg_of(q_agg, "warranty", tf_ps), 2),
               cost_per_device |-> round(_avg_of(c_agg, "cost_per_device", tf_ps), 2)]
  IN [Ok("manufacturing_overview", "", tf, tf_ps, kpis,
         [qualityTrend |-> RoundedSeries(tf_ps, q_agg, {"doa", "defect", "warranty"}, 2),
          reliabilityTrend |-> RoundedSeries(tf_ps, rel_agg, {"mtbf", "mttr"}, 1),
          costTrend |-> RoundedSeries(tf_ps, c_agg, {"cost_per_device"}, 2)])
      EXCEPT !.breakdown = devices_breakdown(st, "fault_type")]

ManufacturingKeys == {"uptime", "mtbf", "mttr", "doa", "defect", "warranty",
                      "cost_per_device"}

ManufacturingBys == {"fault_type", "device_type"}

manufacturing_kpi_drilldown(td, st, key, by, range_, granularity) ==
  LET tf == build_timeframe_manufacturing(td, range_, granularity)
      tf_ps == manufacturing_periods(tf)
      series ==
        CASE key = "uptime" ->
               RoundedSeries(tf_ps, _agg_avg(uptime_rows(st), {"uptime"}, granularity, tf_ps),
                             {"uptime"}, 3)
          [] key \in {"mtbf", "mttr"} ->
               RoundedSeries(tf_ps, _agg_avg(reliability_rows(st), {"mtbf", "mttr"},
                                             granularity, tf_ps), {key}, 1)
          [] key \in {"doa", "defect", "warranty"} ->
               RoundedSeries(tf_ps, _agg_avg(quality_rows(st), {"doa", "defect", "warranty"},
                                             granularity, tf_ps), {key}, 2)
          [] OTHER ->
               RoundedSeries(tf_ps, _agg_avg(cost_rows(st), {"cost_per_device"},
                                             granularity, tf_ps), {"cost_per_device"}, 2)
  IN [Ok("manufacturing_drilldown", key, tf, tf_ps, EmptyMap, [series |-> series])
      EXCEPT !.breakdown = devices_breakdown(st, by)]

\* ---------------------------------------------------------------- the state machine
\* the dimension of a drilldown requested without a by parameter
DefaultBy(mod) ==
  CASE mod = "finance" -> "customer"
    [] mod = "sales" -> "customer"
    [] mod = "marketing" -> "source"
    [] mod = "manufacturing" -> "fault_type"

SupplyBys == {"component"}

\* the values the signature of an endpoint admits for the path parameter key
EndpointKeys(ep) ==
  CASE ep = "finance_drilldown" -> FinanceKeys
    [] ep = "sales_drilldown" -> SalesKeys
    [] ep = "supply_drilldown" -> SupplyKeys
    [] ep = "marketing_drilldown" -> MarketingKeys
    [] ep = "manufacturing_drilldown" -> ManufacturingKeys
    [] OTHER -> {""}

\* the values the signature of an endpoint admits for the query parameter by
EndpointBys(ep) ==
  CASE ep \in {"finance_drilldown", "sales_drilldown"} -> OrderBys
    [] ep = "supply_drilldown" -> SupplyBys
    [] ep = "marketing_drilldown" -> MarketingBys
    [] ep = "manufacturing_drilldown" -> ManufacturingBys
    [] OTHER -> {""}

\* a parameter outside its Literal: 422 before the handler is called
Rejected(ep, key, by, range_, granularity) ==
  [Idle EXCEPT !.ep = ep, !.key = key, !.by = by, !.range = range_,
               !.gran = granularity, !.status = 422,
               !.error = "RequestValidationError"]

\* the parameters are validated against the signature, then the handler runs
Validated(ep, key, by, range_, granularity, out) ==
  IF /\ key \in EndpointKeys(ep)
     /\ by \in EndpointBys(ep)
     /\ range_ \in Ranges
     /\ granularity \in Grans
  THEN [Answer(out) EXCEPT !.by = by]
  ELSE Rejected(ep, key, by, range_, granularity)

\* no request in flight, the module globals as imported, no meeting stored
NoRequest == [ep |-> "none"]

StartClock == 10

OthersInit ==
  /\ inflight = NoRequest
  /\ _LAST_CALL_TS = 0
  /\ clock = StartClock
  /\ ai_threads = <<>>
  /\ meetings = {}
  /\ meeting_threads = <<>>

Init ==
  /\ today \in RunDates
  /\ store = StaticStore
  /\ resp = Idle
  /\ OthersInit

\* the seed script writes the monthly batch of one month into every table
SeedMonth(ym, v) ==
  /\ resp = Idle
  /\ ym \notin SeededMonths(store)
  /\ Cardinality(SeededMonths(store)) < MaxRows
  /\ store' = [t \in Tables |-> store[t] \cup SeedRows(ym, v)[t]]
  /\ UNCHANGED <<today, resp, others>>

\* the handler, were it to clear the rows it has served
ExecutiveDashboardStoring(range_, granularity) ==
  /\ resp = Idle
  /\ resp' = Validated("exec_overview", "", "", range_, granularity,
                     executive_dashboard(today, store, range_, granularity))
  /\ store' = [store EXCEPT !["revenue_trend"] = {}]
  /\ UNCHANGED <<today, others>>

ExecutiveDashboard(range_, granularity) ==
  /\ resp = Idle
  /\ resp' = Validated("exec_overview", "", "", range_, granularity,
                     executive_dashboard(today, store, range_, granularity))
  /\ UNCHANGED <<today, store, others>>

FinanceOverview(range_, granularity) ==
  /\ resp = Idle
  /\ resp' = Validated("finance_overview", "", "", range_, granularity,
                     finance_overview(today, store, range_, granularity))
  /\ UNCHANGED <<today, store, others>>

FinanceDrilldown(key, by, range_, granularity) ==
  /\ resp = Idle
  /\ resp' = Validated("finance_drilldown", key, by, range_, granularity,
                     finance_kpi_drilldown(today, store, key, by, range_, granularity))
  /\ UNCHANGED <<today, store, others>>

SalesOverview(range_, granularity) ==
  /\ resp = Idle
  /\ resp' = Validated("sales_overview", "", "", range_, granularity,
                     sales_overview(today, store, range_, granularity))
  /\ UNCHANGED <<today, store, others>>

SalesDrilldown(key, by, range_, granularity) ==
  /\ resp = Idle
  /\ resp' = Validated("sales_drilldown", key, by, range_, granularity,
                     sales_kpi_drilldown(today, store, key, by, range_, granularity))
  /\ UNCHANGED <<today, store, others>>

SupplyOverview(range_, granularity) ==
  /\ resp = Idle
  /\ resp' = Validated("supply_overview", "", "", range_, granularity,
                     supply_overview(today, store, range_, granularity))
  /\ UNCHANGED <<today, store, others>>

SupplyDrilldown(key, by, range_, granularity) ==
  /\ resp = Idle
  /\ resp' = Validated("supply_drilldown", key, by, range_, granularity,
                     supply_kpi_drilldown(today, store, key, range_, granularity))
  /\ UNCHANGED <<today, store, others>>

MarketingOverview(range_, granularity) ==
  /\ resp = Idle
  /\ resp' = Validated("marketing_overview", "", "", range_, granularity,
                     marketing_overview(today, store, range_, granularity))
  /\ UNCHANGED <<today, store, others>>

MarketingDrilldown(key, by, range_, granularity) ==
  /\ resp = Idle
  /\ resp' = Validated("marketing_drilldown", key, by, range_, granularity,
                     marketing_kpi_drilldown(today, store, key, by, range_, granularity))
  /\ UNCHANGED <<today, store, others>>

ManufacturingOverview(range_, granularity) ==
  /\ resp = Idle
  /\ resp' = Validated("manufacturing_overview", "", "", range_, granularity,
                     manufacturing_overview(today, store, range_, granularity))
  /\ UNCHANGED <<today, store, others>>

ManufacturingDrilldown(key, by, range_, granularity) ==
  /\ resp = Idle
  /\ resp' = Validated("manufacturing_drilldown", key, by, range_, granularity,
                     manufacturing_kpi_drilldown(today, store, key, by, range_, granularity))
  /\ UNCHANGED <<today, store, others>>

\* the response is sent; the worker takes the next request
Deliver ==
  /\ resp # Idle
  /\ resp' = Idle
  /\ UNCHANGED <<today, store, others>>

Next ==
  \/ \E ym \in DataMonths, v \in SeedValues : SeedMonth(ym, v)
  \/ \E r \in Ranges, g \in Grans : ExecutiveDashboard(r, g)
  \/ \E r \in Ranges, g \in Grans : FinanceOverview(r, g)
  \/ \E k \in FinanceKeys, r \in Ranges, g \in Grans :
       FinanceDrilldown(k, DefaultBy("finance"), r, g)
  \/ \E r \in Ranges, g \in Grans : SalesOverview(r, g)
  \/ \E k \in SalesKeys, r \in Ranges, g \in Grans :
       SalesDrilldown(k, DefaultBy("sales"), r, g)
  \/ \E r \in Ranges, g \in Grans : SupplyOverview(r, g)
  \/ \E k \in SupplyKeys, r \in Ranges, g \in Grans : SupplyDrilldown(k, "component", r, g)
  \/ \E r \in Ranges, g \in Grans : MarketingOverview(r, g)
  \/ \E k \in MarketingKeys, r \in Ranges, g \in Grans :
       MarketingDrilldown(k, DefaultBy("marketing"), r, g)
  \/ \E r \in Ranges, g \in Grans : ManufacturingOverview(r, g)
  \/ \E k \in ManufacturingKeys, r \in Ranges, g \in Grans :
       ManufacturingDrilldown(k, DefaultBy("manufacturing"), r, g)
  \/ Deliver

Spec == Init /\ [][Next]_vars

\* ---------------------------------------------------------------- the timeframe machine
\* the wall clock walks day by day; a module builds its timeframe and enumerates it
InitTF ==
  /\ today = StartDate
  /\ store = StaticStore
  /\ resp = Idle
  /\ OthersInit

Tick ==
  /\ resp = Idle
  /\ next_day(today)[1] <= LastYear
  /\ today' = next_day(today)
  /\ UNCHANGED <<store, resp, others>>

Timeframe(mod, range_, granularity) ==
  /\ resp = Idle
  /\ LET tf == build_timeframe(mod, today, range_, granularity)
     IN resp' = [Idle EXCEPT !.ep = "timeframe", !.key = mod, !.range = range_,
                             !.gran = granularity, !.status = 200, !.tf = tf,
                             !.periods = enumerate_periods(mod, tf),
                             !.kpis = IF mod = "exec"
                                      THEN [prev |-> prev_window(tf, NumMonths(range_))]
                                      ELSE EmptyMap]
  /\ UNCHANGED <<today, store, others>>

NextTF ==
  \/ Tick
  \/ \E mod \in Modules, r \in Ranges, g \in Grans : Timeframe(mod, r, g)
  \/ Deliver

SpecTF == InitTF /\ [][NextTF]_vars

\* ---------------------------------------------------------------- requests against a dense table
InitDense ==
  /\ today = DenseToday
  /\ store \in {DenseStore(f) : f \in [DenseMonths -> DenseValues]}
  /\ resp = Idle
  /\ OthersInit

NextDense ==
  \/ \E r \in Ranges, g \in Grans : ExecutiveDashboard(r, g)
  \/ \E r \in Ranges, g \in Grans : FinanceOverview(r, g)
  \/ Deliver

SpecDense == InitDense /\ [][NextDense]_vars

\* ---------------------------------------------------------------- breakdown requests
\* the number of seeded months of the stores the breakdowns are requested on
MixCount == 3

\* every third month back from the run date's month: some fall before the 6m window
MixMonths ==
  {strftime_ym(month_add(month_floor(DenseToday), -3 * i)) : i \in 0..(MixCount - 1)}

\* raw numbers of these stores: an amount, and a score of each NPS bucket
MixValues == {NULL, Some(0), Some(8), Some(9)}

\* a COGS table whose costs are all zero or missing
ZeroCogsRows == {[component |-> "PCB", cost |-> Some(0)],
                 [component |-> "Battery", cost |-> NULL]}

\* the store with the monthly batch of value f[ym] for every month ym and the COGS table c
MixStore(f, c) ==
  [t \in Tables |->
     IF t = "supply_cogs_breakdown" THEN c
     ELSE StaticStore[t] \cup UNION {SeedRows(ym, f[ym])[t] : ym \in DOMAIN f}]

InitBreakdown ==
  /\ today = DenseToday
  /\ store \in {MixStore(f, c) : f \in [MixMonths -> MixValues],
                                 c \in {CogsRows, ZeroCogsRows}}
  /\ resp = Idle
  /\ OthersInit

NextBreakdown ==
  \/ \E k \in FinanceKeys, by \in OrderBys, r \in Ranges, g \in Grans :
       FinanceDrilldown(k, by, r, g)
  \/ \E k \in SalesKeys, by \in OrderBys, r \in Ranges, g \in Grans :
       SalesDrilldown(k, by, r, g)
  \/ \E r \in Ranges, g \in Grans : SupplyOverview(r, g)
  \/ \E k \in SupplyKeys, r \in Ranges, g \in Grans : SupplyDrilldown(k, "component", r, g)
  \/ \E r \in Ranges, g \in Grans : MarketingOverview(r, g)
  \/ \E k \in MarketingKeys, by \in MarketingBys, r \in Ranges, g \in Grans :
       MarketingDrilldown(k, by, r, g)
  \/ \E r \in Ranges, g \in Grans : ManufacturingOverview(r, g)
  \/ \E k \in ManufacturingKeys, by \in ManufacturingBys, r \in Ranges, g \in Grans :
       ManufacturingDrilldown(k, by, r, g)
  \/ Deliver

SpecBreakdown == InitBreakdown /\ [][NextBreakdown]_vars

\* ---------------------------------------------------------------- requests of any shape
\* clients also send values outside the Literals of the signatures
AnyRanges == Ranges \cup {"3m"}
AnyGrans == Grans \cup {"week"}
AnyBys == OrderBys \cup MarketingBys \cup ManufacturingBys \cup SupplyBys
AnyKeys(ep) == EndpointKeys(ep) \cup {"unknown"}

InitRequests ==
  /\ today = DenseToday
  /\ store \in {StaticStore} \cup {MixStore(f, CogsRows) : f \in [MixMonths -> {Some(8), Some(9)}]}
  /\ resp = Idle
  /\ OthersInit

NextRequests ==
  \/ \E r \in AnyRanges, g \in AnyGrans : ExecutiveDashboard(r, g)
  \/ \E r \in AnyRanges, g \in AnyGrans : FinanceOverview(r, g)
  \/ \E k \in AnyKeys("finance_drilldown"), by \in AnyBys, r \in AnyRanges, g \in AnyGrans :
       FinanceDrilldown(k, by, r, g)
  \/ \E r \in AnyRanges, g \in AnyGrans : SalesOverview(r, g)
  \/ \E k \in AnyKeys("sales_drilldown"), by \in AnyBys, r \in AnyRanges, g \in AnyGrans :
       SalesDrilldown(k, by, r, g)
  \/ \E r \in AnyRanges, g \in AnyGrans : SupplyOverview(r, g)
  \/ \E k \in AnyKeys("supply_drilldown"), by \in AnyBys, r \in AnyRanges, g \in AnyGrans :
       SupplyDrilldown(k, by, r, g)
  \/ \E r \in AnyRanges, g \in AnyGrans : MarketingOverview(r, g)
  \/ \E k \in AnyKeys("marketing_drilldown"), by \in AnyBys, r \in AnyRanges, g \in AnyGrans :
       MarketingDrilldown(k, by, r, g)
  \/ \E r \in AnyRanges, g \in AnyGrans : ManufacturingOverview(r, g)
  \/ \E k \in AnyKeys("manufacturing_drilldown"), by \in AnyBys, r \in AnyRanges,
        g \in AnyGrans :
       ManufacturingDrilldown(k, by, r, g)
  \/ Deliver

SpecRequests == InitRequests /\ [][NextRequests]_vars

\* ---------------------------------------------------------------- a writer beside a request
\* the handler's queries run one after the other on a connection that opens no
\* transaction for a SELECT; another connection may commit in between
MaxCommits == 2
CommitValues == {Some(90), Some(120)}

InitSnapshot ==
  /\ today = DenseToday
  /\ store = StaticStore
  /\ resp = Idle
  /\ OthersInit

\* another connection commits the batch of one month
CommitMonth(ym, v) ==
  /\ ym \notin SeededMonths(store)
  /\ Cardinality(SeededMonths(store)) < MaxCommits
  /\ store' = [t \in Tables |-> store[t] \cup SeedRows(ym, v)[t]]
  /\ UNCHANGED <<today, resp, others>>

ExecFirstQuery(range_, granularity) ==
  /\ resp = Idle
  /\ inflight = NoRequest
  /\ inflight' = [ep |-> "exec_overview", range |-> range_, gran |-> granularity,
                  today |-> today,
                  rows |-> revenue_window(today, store, range_, granularity)]
  /\ UNCHANGED <<today, store, resp, _LAST_CALL_TS, clock, ai_threads,
                 meetings, meeting_threads>>

ExecLaterQueries ==
  /\ inflight # NoRequest
  /\ inflight.ep = "exec_overview"
  /\ resp' = Validated("exec_overview", "", "", inflight.range, inflight.gran,
                       executive_dashboard_rest(inflight.today, inflight.rows, store,
                                                inflight.range, inflight.gran))
  /\ inflight' = NoRequest
  /\ UNCHANGED <<today, store, _LAST_CALL_TS, clock, ai_threads,
                 meetings, meeting_threads>>

NextSnapshot ==
  \/ \E ym \in DataMonths, v \in CommitValues : CommitMonth(ym, v)
  \/ \E r \in Ranges, g \in Grans : ExecFirstQuery(r, g)
  \/ ExecLaterQueries
  \/ Deliver

SpecSnapshot == InitSnapshot /\ [][NextSnapshot]_vars

\* ---------------------------------------------------------------- midnight during a request
\* days the wall clock may advance while requests are served
ClockDays == 2

ClockStores ==
  {[t \in Tables |-> StaticStore[t] \cup SeedRows(Ym(2025, 1), v)[t]
                                      \cup SeedRows(Ym(2025, 2), w)[t]] :
     v \in CommitValues, w \in CommitValues}

\* the run date: the last day of the latest month with data
ClockStart == <<2025, 2, 28>>

RECURSIVE days_after(_, _)
days_after(d, n) == IF n = 0 THEN d ELSE days_after(next_day(d), n - 1)

InitClock ==
  /\ today = ClockStart
  /\ store \in ClockStores
  /\ resp = Idle
  /\ OthersInit

\* midnight passes, also while a handler runs
Midnight ==
  /\ today # days_after(ClockStart, ClockDays)
  /\ today' = next_day(today)
  /\ UNCHANGED <<store, resp, others>>

\* tf = build_timeframe(range, granularity) at the top of the handler
FinanceDrilldownTimeframe(key, by, range_, granularity) ==
  /\ resp = Idle
  /\ inflight = NoRequest
  /\ inflight' = [ep |-> "finance_drilldown", key |-> key, by |-> by, range |-> range_,
                  gran |-> granularity, today |-> today]
  /\ UNCHANGED <<today, store, resp, _LAST_CALL_TS, clock, ai_threads,
                 meetings, meeting_threads>>

\* the queries, the finance_overview call of the fallback keys and the breakdown
FinanceDrilldownQueries ==
  /\ inflight # NoRequest
  /\ inflight.ep = "finance_drilldown"
  /\ resp' = Validated("finance_drilldown", inflight.key, inflight.by, inflight.range,
                       inflight.gran,
                       finance_kpi_drilldown_at(inflight.today, today, store, inflight.key,
                                                inflight.by, inflight.range, inflight.gran))
  /\ inflight' = NoRequest
  /\ UNCHANGED <<today, store, _LAST_CALL_TS, clock, ai_threads,
                 meetings, meeting_threads>>

NextClock ==
  \/ Midnight
  \/ \E k \in FinanceKeys, by \in OrderBys, r \in Ranges, g \in Grans :
       FinanceDrilldownTimeframe(k, by, r, g)
  \/ FinanceDrilldownQueries
  \/ Deliver

SpecClock == InitClock /\ [][NextClock]_vars

\* ---------------------------------------------------------------- uptime on two scales
\* uptime as written by different writers: a fraction of 1 or a percentage
UptimeValues == {NULL, Some(1), Some(90), Some(100)}

UptimeStore(f) ==
  [StaticStore EXCEPT !["ops_uptime"] = {[period |-> ym, uptime |-> f[ym]] : ym \in MixMonths}]

InitUptime ==
  /\ today = DenseToday
  /\ store \in {UptimeStore(f) : f \in [MixMonths -> UptimeValues]}
  /\ resp = Idle
  /\ OthersInit

NextUptime ==
  \/ \E r \in Ranges, g \in Grans : ExecutiveDashboard(r, g)
  \/ Deliver

SpecUptime == InitUptime /\ [][NextUptime]_vars

\* ---------------------------------------------------------------- month arithmetic alone
\* the largest number of months a date is shifted by, forward or backward
MaxShift == 30

ShiftDates == {<<y, m, d>> : y \in 2023..2025, m \in 1..12, d \in {1, 15, 28}}

InitMonthAdd ==
  /\ today = DenseToday
  /\ store = StaticStore
  /\ resp = Idle
  /\ OthersInit

\* month_add(d, k) is called
MonthAdd(d, k) ==
  /\ inflight = NoRequest
  /\ inflight' = [ep |-> "month_add", d |-> d, k |-> k, out |-> month_add(d, k)]
  /\ UNCHANGED <<today, store, resp, _LAST_CALL_TS, clock, ai_threads,
                 meetings, meeting_threads>>

\* month_add(month_add(d, k), -k)
MonthAddBack ==
  /\ inflight # NoRequest
  /\ inflight.ep = "month_add"
  /\ inflight' = [ep |-> "month_back", d |-> inflight.d, k |-> inflight.k,
                  out |-> inflight.out, back |-> month_add(inflight.out, -inflight.k)]
  /\ UNCHANGED <<today, store, resp, _LAST_CALL_TS, clock, ai_threads,
                 meetings, meeting_threads>>

MonthAddReturn ==
  /\ inflight # NoRequest
  /\ inflight.ep \in {"month_add", "month_back"}
  /\ inflight' = NoRequest
  /\ UNCHANGED <<today, store, resp, _LAST_CALL_TS, clock, ai_threads,
                 meetings, meeting_threads>>

NextMonthAdd ==
  \/ \E d \in ShiftDates, k \in (-MaxShift)..MaxShift : MonthAdd(d, k)
  \/ MonthAddBack
  \/ MonthAddReturn

SpecMonthAdd == InitMonthAdd /\ [][NextMonthAdd]_vars

\* ---------------------------------------------------------------- ai_summary
\* the endpoint is a plain def: the server runs each request on a worker thread
AiWorkers == 2

\* seconds the clock advances at most
MaxTicks == 4

_MIN_INTERVAL_SEC == 2

InitAi ==
  /\ today = DenseToday
  /\ store = StaticStore
  /\ resp = Idle
  /\ inflight = NoRequest
  /\ _LAST_CALL_TS = 0
  /\ clock = StartClock
  /\ ai_threads = [t \in 1..AiWorkers |-> [pc |-> "idle", now |-> 0]]
  /\ meetings = {}
  /\ meeting_threads = <<>>

AiFrame == UNCHANGED <<today, store, resp, inflight, meetings, meeting_threads>>

Second ==
  /\ clock < StartClock + MaxTicks
  /\ clock' = clock + 1
  /\ UNCHANGED <<_LAST_CALL_TS, ai_threads>>
  /\ AiFrame

\* now = time.time()
AiReadClock(t) ==
  /\ ai_threads[t].pc = "idle"
  /\ ai_threads' = [ai_threads EXCEPT ![t] = [pc |-> "check", now |-> clock]]
  /\ UNCHANGED <<_LAST_CALL_TS, clock>>
  /\ AiFrame

\* if now - _LAST_CALL_TS < _MIN_INTERVAL_SEC: raise HTTPException(429)
AiCheck(t) ==
  /\ ai_threads[t].pc = "check"
  /\ ai_threads' = [ai_threads EXCEPT ![t].pc =
                      IF ai_threads[t].now - _LAST_CALL_TS < _MIN_INTERVAL_SEC
                      THEN "429" ELSE "store"]
  /\ UNCHANGED <<_LAST_CALL_TS, clock>>
  /\ AiFrame

\* _LAST_CALL_TS = now, then the summary is built and returned
AiStore(t) ==
  /\ ai_threads[t].pc = "store"
  /\ _LAST_CALL_TS' = ai_threads[t].now
  /\ ai_threads' = [ai_threads EXCEPT ![t].pc = "200"]
  /\ UNCHANGED clock
  /\ AiFrame

\* the answer is sent, the worker is free again
AiReturn(t) ==
  /\ ai_threads[t].pc \in {"429", "200"}
  /\ ai_threads' = [ai_threads EXCEPT ![t] = [pc |-> "idle", now |-> 0]]
  /\ UNCHANGED <<_LAST_CALL_TS, clock>>
  /\ AiFrame

NextAi ==
  \/ Second
  \/ \E t \in 1..AiWorkers : AiReadClock(t)
  \/ \E t \in 1..AiWorkers : AiCheck(t)
  \/ \E t \in 1..AiWorkers : AiStore(t)
  \/ \E t \in 1..AiWorkers : AiReturn(t)

SpecAi == InitAi /\ [][NextAi]_vars

\* ---------------------------------------------------------------- meetings
\* a datetime of a request body: the wall-clock reading (in hours of one day) and
\* the UTC offset it carries
MeetingTimes == {[wall |-> 1, off |-> 0], [wall |-> 2, off |-> 0],
                 [wall |-> 4, off |-> 0], [wall |-> 1, off |-> -2]}

\* the point in time a datetime denotes: aware datetimes compare by it
instant(t) == t.wall - t.off

\* datetime.isoformat(): the reading in fixed width, then the offset, "+hh:mm"
\* sorting before "-hh:mm"; TEXT columns compare character by character
isoformat(t) == <<t.wall, IF t.off >= 0 THEN 0 ELSE 1, IF t.off >= 0 THEN t.off ELSE -t.off>>

text_less(a, b) ==
  \/ a[1] < b[1]
  \/ a[1] = b[1] /\ a[2] < b[2]
  \/ a[1] = b[1] /\ a[2] = b[2] /\ a[3] < b[3]

\* datetime.fromisoformat() of a stored text
fromisoformat(x) == [wall |-> x[1], off |-> IF x[2] = 0 THEN x[3] ELSE -x[3]]

\* CHECK (end_time > start_time) of the meetings table
table_check(row) == text_less(row.start_time, row.end_time)

\* ids handed out by AUTOINCREMENT
MaxMeetings == 1

MeetingWorkers == 2

IdleWorker == [pc |-> "idle"]

Answered(op, status) == [pc |-> "done", op |-> op, status |-> status]

InitMeetings ==
  /\ today = DenseToday
  /\ store = StaticStore
  /\ resp = Idle
  /\ inflight = NoRequest
  /\ _LAST_CALL_TS = 0
  /\ clock = StartClock
  /\ ai_threads = <<>>
  /\ meetings = {}
  /\ meeting_threads = [t \in 1..MeetingWorkers |-> IdleWorker]

MeetingFrame == UNCHANGED <<today, store, resp, inflight, _LAST_CALL_TS, clock, ai_threads>>

\* POST /meetings
create_meeting(t, start_time, end_time) ==
  /\ meeting_threads[t] = IdleWorker
  /\ Cardinality(meetings) < MaxMeetings
  /\ LET row == [id |-> Cardinality(meetings) + 1,
                 start_time |-> isoformat(start_time), end_time |-> isoformat(end_time)]
     IN IF instant(end_time) <= instant(start_time)
        THEN /\ meeting_threads' = [meeting_threads EXCEPT ![t] = Answered("create", 400)]
             /\ UNCHANGED meetings
        ELSE IF ~table_check(row)
        THEN \* sqlite3.IntegrityError
             /\ meeting_threads' = [meeting_threads EXCEPT ![t] = Answered("create", 400)]
             /\ UNCHANGED meetings
        ELSE /\ meetings' = meetings \cup {row}
             /\ meeting_threads' = [meeting_threads EXCEPT ![t] = Answered("create", 201)]
  /\ MeetingFrame

\* PUT /meetings/{id}, up to the validation against the row it has read;
\* start_time and end_time are sets: empty when the body leaves the field out
update_meeting_read(t, id, start_time, end_time) ==
  /\ meeting_threads[t] = IdleWorker
  /\ LET found == {m \in meetings : m.id = id}
     IN IF found = {}
        THEN meeting_threads' = [meeting_threads EXCEPT ![t] = Answered("update", 404)]
        ELSE LET existing == CHOOSE m \in found : TRUE
                 s == IF start_time # {} THEN isoformat(The(start_time))
                      ELSE existing.start_time
                 e == IF end_time # {} THEN isoformat(The(end_time))
                      ELSE existing.end_time
             IN IF start_time = {} /\ end_time = {}
                THEN meeting_threads' = [meeting_threads EXCEPT ![t] = Answered("update", 200)]
                ELSE IF instant(fromisoformat(e)) <= instant(fromisoformat(s))
                THEN meeting_threads' = [meeting_threads EXCEPT ![t] = Answered("update", 400)]
                ELSE meeting_threads' =
                       [meeting_threads EXCEPT ![t] =
                          [pc |-> "write", id |-> id, start_time |-> start_time,
                           end_time |-> end_time]]
  /\ UNCHANGED meetings
  /\ MeetingFrame

\* BEGIN; UPDATE meetings SET ... WHERE id = ?; COMMIT; SELECT the row again
update_meeting_write(t) ==
  /\ meeting_threads[t].pc = "write"
  /\ LET w == meeting_threads[t]
         found == {m \in meetings : m.id = w.id}
     IN IF found = {}
        THEN /\ meeting_threads' = [meeting_threads EXCEPT ![t] = Answered("update", 500)]
             /\ UNCHANGED meetings
        ELSE LET old == CHOOSE m \in found : TRUE
                 row == [id |-> old.id,
                         start_time |-> IF w.start_time # {}
                                        THEN isoformat(The(w.start_time))
                                        ELSE old.start_time,
                         end_time |-> IF w.end_time # {}
                                      THEN isoformat(The(w.end_time))
                                      ELSE old.end_time]
             IN IF ~table_check(row)
                THEN /\ meeting_threads' =
                          [meeting_threads EXCEPT ![t] = Answered("update", 400)]
                     /\ UNCHANGED meetings
                ELSE /\ meetings' = (meetings \ {old}) \cup {row}
                     /\ meeting_threads' =
                          [meeting_threads EXCEPT ![t] = Answered("update", 200)]
  /\ MeetingFrame

\* DELETE /meetings/{id}
delete_meeting(t, id) ==
  /\ meeting_threads[t] = IdleWorker
  /\ IF \E m \in meetings : m.id = id
     THEN /\ meetings' = {m \in meetings : m.id # id}
          /\ meeting_threads' = [meeting_threads EXCEPT ![t] = Answered("delete", 204)]
     ELSE /\ meeting_threads' = [meeting_threads EXCEPT ![t] = Answered("delete", 404)]
          /\ UNCHANGED meetings
  /\ MeetingFrame

MeetingReturn(t) ==
  /\ meeting_threads[t].pc = "done"
  /\ meeting_threads' = [meeting_threads EXCEPT ![t] = IdleWorker]
  /\ UNCHANGED meetings
  /\ MeetingFrame

OptionalTimes == {NULL} \cup {Some(x) : x \in MeetingTimes}

NextMeetings ==
  \/ \E t \in 1..MeetingWorkers, s \in MeetingTimes, e \in MeetingTimes :
       create_meeting(t, s, e)
  \/ \E t \in 1..MeetingWorkers, id \in 1..MaxMeetings, s \in OptionalTimes,
        e \in OptionalTimes :
       update_meeting_read(t, id, s, e)
  \/ \E t \in 1..MeetingWorkers : update_meeting_write(t)
  \/ \E t \in 1..MeetingWorkers, id \in 1..MaxMeetings : delete_meeting(t, id)
  \/ \E t \in 1..MeetingWorkers : MeetingReturn(t)

SpecMeetings == InitMeetings /\ [][NextMeetings]_vars

\* ---------------------------------------------------------------- the fraction normalizers
\* largest input in hundredths / largest whole-number input
MaxCenti == 250

MaxPct == 100

\* raw values handed to _as_fraction: None, a text that is no number, n/100, whole numbers
NormInputs ==
  {NULL, Some([text |-> "n/a"])}
    \cup {Some(Q(n, 100)) : n \in 0..MaxCenti}
    \cup {Some(QInt(k)) : k \in 0..MaxPct}

\* the metric families each module hands to its _as_fraction
NormCalls ==
  {<<"exec", "uptime">>, <<"exec", "nrr">>,
   <<"finance", "uptime">>, <<"finance", "nrr">>,
   <<"manufacturing", "uptime">>, <<"manufacturing", "quality">>}

_as_fraction(mod, v) ==
  CASE mod = "exec" -> exec_as_fraction(v)
    [] mod = "finance" -> finance_as_fraction(v)
    [] mod = "manufacturing" -> manufacturing_as_fraction(v)

InitNorm ==
  /\ today = StartDate
  /\ store = StaticStore
  /\ resp = Idle
  /\ OthersInit

Normalize(mod, family, v) ==
  /\ resp = Idle
  /\ resp' = [Idle EXCEPT !.ep = "normalize", !.key = mod, !.status = 200,
                          !.kpis = [family |-> family, input |-> v,
                                    output |-> _as_fraction(mod, v)]]
  /\ UNCHANGED <<today, store, others>>

NextNorm ==
  \/ \E c \in NormCalls, v \in NormInputs : Normalize(c[1], c[2], v)
  \/ Deliver

SpecNorm == InitNorm /\ [][NextNorm]_vars

\* ---------------------------------------------------------------- properties: timeframes
\* months since year 0 of a date or of a month label
MonthIndex(y, m) == y * 12 + m - 1

LabelOfIndex(i) == Ym(i \div 12, (i % 12) + 1)

IsTimeframe == resp.ep = "timeframe"

ExactModules == {"exec", "finance", "marketing", "manufacturing"}

LongModules == {"sales", "supply"}

\* the n consecutive month labels that end with month index e
MonthRun(e, n) == [i \in 1..n |-> LabelOfIndex(e - n + i)]

\* C8: in the executive-dashboard, finance, marketing and manufacturing modules
\* the window starts on day 1 of the month n-1 months before today's month, ends
\* on the last day of today's month, and the month enumeration is exactly the n
\* consecutive month labels that end with today's month.
C8_ExactWindow ==
  (IsTimeframe /\ resp.key \in ExactModules) =>
    LET n == NumMonths(resp.range)
        e == MonthIndex(today[1], today[2])
        s == LabelOfIndex(e - (n - 1))
    IN /\ resp.tf.start_date = <<s.y, s.m, 1>>
       /\ resp.tf.end_date = <<today[1], today[2], DaysInMonth(today[1], today[2])>>
       /\ resp.gran = "month" => resp.periods = MonthRun(e, n)

\* the spec's scenario: 2025-09-15, 6m, month gives 2025-04-01..2025-09-30
C8_Witness ==
  /\ IsTimeframe /\ resp.key = "exec" /\ today = <<2025, 9, 15>>
  /\ resp.range = "6m" /\ resp.gran = "month"
  /\ resp.tf.start_date = <<2025, 4, 1>> /\ resp.tf.end_date = <<2025, 9, 30>>
  /\ resp.periods = <<Ym(2025, 4), Ym(2025, 5), Ym(2025, 6),
                      Ym(2025, 7), Ym(2025, 8), Ym(2025, 9)>>

\* C9: in the sales and supply modules the window starts on day 1 of the month
\* n months before today's month, so the month enumeration has n+1 labels, the
\* last being today's month.
C9_LongWindow ==
  (IsTimeframe /\ resp.key \in LongModules) =>
    LET n == NumMonths(resp.range)
        e == MonthIndex(today[1], today[2])
        s == LabelOfIndex(e - n)
    IN /\ resp.tf.start_date = <<s.y, s.m, 1>>
       /\ resp.gran = "month" =>
            /\ Len(resp.periods) = n + 1
            /\ resp.periods = MonthRun(e, n + 1)
            /\ resp.periods[n + 1] = Ym(today[1], today[2])

C9_Witness ==
  /\ IsTimeframe /\ resp.key = "sales" /\ today = <<2025, 1, 31>>
  /\ resp.range = "12m" /\ resp.gran = "month"
  /\ Len(resp.periods) = 13 /\ resp.periods[1] = Ym(2024, 1)

\* C10 as claimed: 6 or 12 periods for month granularity, 2 to 4 for quarter
C10_Original ==
  IsTimeframe =>
    IF resp.gran = "month" THEN Len(resp.periods) = NumMonths(resp.range)
    ELSE Len(resp.periods) >= 2 /\ Len(resp.periods) <= 4

\* C10 amended: for month granularity the number of periods is n (6 or 12) in the
\* executive-dashboard, finance, marketing and manufacturing modules and n+1 (7 or
\* 13) in the sales and supply modules; for quarter granularity it is between 2
\* and 5 inclusive.
C10_PeriodCount ==
  IsTimeframe =>
    IF resp.gran = "month"
    THEN Len(resp.periods) = NumMonths(resp.range)
                             + (IF resp.key \in LongModules THEN 1 ELSE 0)
    ELSE Len(resp.periods) >= 2 /\ Len(resp.periods) <= 5

\* a 12-month window that starts in the middle of a quarter spans 5 quarters
C10_Witness ==
  /\ IsTimeframe /\ resp.key = "exec" /\ resp.range = "12m" /\ resp.gran = "quarter"
  /\ Len(resp.periods) = 5

\* ---------------------------------------------------------------- properties: series
OverviewEps == {"exec_overview", "finance_overview", "sales_overview",
                "marketing_overview", "supply_overview", "manufacturing_overview"}

DrilldownEps == {"finance_drilldown", "sales_drilldown", "marketing_drilldown",
                 "supply_drilldown", "manufacturing_drilldown"}

ModOf(ep) ==
  CASE ep = "exec_overview" -> "exec"
    [] ep \in {"finance_overview", "finance_drilldown"} -> "finance"
    [] ep \in {"sales_overview", "sales_drilldown"} -> "sales"
    [] ep \in {"marketing_overview", "marketing_drilldown"} -> "marketing"
    [] ep \in {"supply_overview", "supply_drilldown"} -> "supply"
    [] ep \in {"manufacturing_overview", "manufacturing_drilldown"} -> "manufacturing"

\* the label a month belongs to: itself, or YYYY-Qn with n = ceil(month / 3)
SpecLabel(ym, gran) ==
  IF gran = "month" THEN ym ELSE [y |-> ym.y, m |-> 0, q |-> (ym.m + 2) \div 3]

\* the month lies between the timeframe's start month and end month
InWindow(ym, tf) ==
  /\ MonthIndex(tf.start_date[1], tf.start_date[2]) <= MonthIndex(ym.y, ym.m)
  /\ MonthIndex(ym.y, ym.m) <= MonthIndex(tf.end_date[1], tf.end_date[2])

\* the chronologically last row of a non-empty set of monthly rows
LastRow(R) ==
  CHOOSE r \in R : \A x \in R : MonthIndex(x.period.y, x.period.m)
                                  <= MonthIndex(r.period.y, r.period.m)

\* every value of the point is 0
IsZeroPoint(pt) == \A k \in DOMAIN pt.v : pt.v[k].n = 0

\* C1: every trend series of an overview has exactly one point per label of the
\* module's period enumerator for the response's timeframe, in enumeration order.
C1_TrendLabels ==
  (resp.ep \in OverviewEps /\ resp.status = 200) =>
    /\ DOMAIN resp.trends # {}
    /\ \A name \in DOMAIN resp.trends :
         Labels(resp.trends[name]) = enumerate_periods(ModOf(resp.ep), resp.tf)

\* a quarter view over a store with one seeded month: two of three labels have no row
C1_Witness ==
  /\ resp.ep = "sales_overview" /\ resp.range = "6m" /\ resp.gran = "quarter"
  /\ Cardinality(SeededMonths(store)) = 1
  /\ \E i \in 1..3 : resp.trends["winrateTrend"][i].v.win_rate_pct.n > 0
  /\ Len(resp.trends["winrateTrend"]) = 3
  /\ Len(resp.trends["pipelineTrend"]) = 3

\* C2: the series of every drilldown contains every enumerated label exactly
\* once, in enumeration order.
C2_DrilldownLabels ==
  (resp.ep \in DrilldownEps /\ resp.status = 200) =>
    Labels(resp.trends["series"]) = enumerate_periods(ModOf(resp.ep), resp.tf)

\* no seeded value is NULL (a month's batch carries one raw number in every table)
NoNulls(st) == \A r \in st["revenue_trend"] : r.backlog # NULL

\* no table has a row of a month that maps to label L
NoRowsFor(st, L, gran) == \A ym \in SeededMonths(st) : SpecLabel(ym, gran) # L

\* C3: every overview and drilldown request completes successfully, and a label
\* without raw rows gets a zero-valued point in every series.
C3_ZeroFillNoError ==
  (resp.ep \in OverviewEps \cup DrilldownEps /\ NoNulls(store)) =>
    /\ resp.status = 200
    /\ \A name \in DOMAIN resp.trends :
         \A j \in 1..Len(resp.periods) :
           NoRowsFor(store, resp.periods[j], resp.gran) =>
             \E i \in 1..Len(resp.trends[name]) :
               /\ resp.trends[name][i].period = resp.periods[j]
               /\ IsZeroPoint(resp.trends[name][i])

\* the revenue_trend rows of the window that map to label L
WindowRevenueRows(st, tf, L) ==
  {r \in st["revenue_trend"] : InWindow(r.period, tf) /\ SpecLabel(r.period, tf.granularity) = L}

\* C4: in the executive dashboard and the finance overview the revenueTrend point
\* of every enumerated label has recognized and booked equal to the sums over
\* the window's rows of that label and backlog equal to the backlog of the
\* chronologically last such row; a label without rows gets 0 in all three.
C4_RevenueTrend ==
  (resp.ep \in {"exec_overview", "finance_overview"} /\ resp.status = 200) =>
    \A j \in 1..Len(resp.periods) :
      LET R == WindowRevenueRows(store, resp.tf, resp.periods[j])
      IN \E i \in 1..Len(resp.trends["revenueTrend"]) :
           LET pt == resp.trends["revenueTrend"][i]
           IN /\ pt.period = resp.periods[j]
              /\ pt.v.recognized = QInt(sum_rows(R, "recognized"))
              /\ pt.v.booked = QInt(sum_rows(R, "booked"))
              /\ pt.v.backlog = QInt(IF R = {} THEN 0 ELSE Coalesce(LastRow(R).backlog))

\* monthly backlogs 100, 120, 90 of one quarter give 90, and recognized 310
C4_Witness ==
  /\ resp.ep = "exec_overview" /\ resp.gran = "quarter" /\ resp.status = 200
  /\ \E i \in 1..Len(resp.trends["revenueTrend"]) :
       /\ resp.trends["revenueTrend"][i].period = [y |-> 2025, m |-> 0, q |-> 1]
       /\ resp.trends["revenueTrend"][i].v.backlog = QInt(90)
       /\ resp.trends["revenueTrend"][i].v.recognized = QInt(310)
  /\ \E r \in store["revenue_trend"] : r.period = Ym(2025, 1) /\ r.backlog = Some(100)
  /\ \E r \in store["revenue_trend"] : r.period = Ym(2025, 2) /\ r.backlog = Some(120)

\* C5: in the finance drilldown for keys revenue and backlog the backlog of each
\* point equals the backlog of the chronologically last revenue_trend row of that
\* period inside the window, a NULL backlog counted as 0.
C5_DrilldownBacklog ==
  (resp.ep = "finance_drilldown" /\ resp.key \in {"revenue", "backlog"}
   /\ resp.status = 200) =>
    \A i \in 1..Len(resp.trends["series"]) :
      LET pt == resp.trends["series"][i]
          R == WindowRevenueRows(store, resp.tf, pt.period)
      IN pt.v.backlog = QInt(IF R = {} THEN 0 ELSE Coalesce(LastRow(R).backlog))

\* the rate-like series: where each is served and which column it averages
\* (digits = -1: the value is not rounded; pct: the column is scaled to 0-100)
RateSources ==
  {[ep |-> "supply_overview", keys |-> {""}, name |-> n[1], field |-> n[2],
    table |-> n[3], col |-> n[2], digits |-> -1, pct |-> FALSE]
     : n \in {<<"leadTimeTrend", "lead_time_days", "supply_lead_time">>,
              <<"inventoryTurnsTrend", "turns_per_year", "supply_inventory_turns">>,
              <<"cogsVarianceTrend", "variance_pct", "supply_cogs_variance">>}}
  \cup
  {[ep |-> "supply_drilldown", keys |-> {n[1]}, name |-> "series", field |-> n[2],
    table |-> n[3], col |-> n[2], digits |-> -1, pct |-> FALSE]
     : n \in {<<"lead_time", "lead_time_days", "supply_lead_time">>,
              <<"inventory_turns", "turns_per_year", "supply_inventory_turns">>,
              <<"cogs_variance", "variance_pct", "supply_cogs_variance">>}}
  \cup
  {[ep |-> "sales_overview", keys |-> {""}, name |-> "winrateTrend", field |-> f,
    table |-> "pipeline_winrate", col |-> f, digits |-> -1, pct |-> FALSE]
     : f \in {"win_rate_pct", "sales_cycle_days"}}
  \cup
  {[ep |-> "sales_drilldown", keys |-> {"win_rate", "sales_cycle"}, name |-> "series",
    field |-> f, table |-> "pipeline_winrate", col |-> f, digits |-> -1, pct |-> FALSE]
     : f \in {"win_rate_pct", "sales_cycle_days"}}
  \cup
  {[ep |-> "marketing_overview", keys |-> {""}, name |-> n[1], field |-> n[2],
    table |-> "feedback_scores", col |-> "score", digits |-> n[3], pct |-> FALSE]
     : n \in {<<"npsTrend", "nps", 1>>, <<"csatTrend", "csat", 2>>}}
  \cup
  {[ep |-> "marketing_drilldown", keys |-> {f}, name |-> "series", field |-> f,
    table |-> "feedback_scores", col |-> "score", digits |-> -1, pct |-> FALSE]
     : f \in {"nps", "csat"}}
  \cup
  {[ep |-> "manufacturing_overview", keys |-> {""}, name |-> n[1], field |-> n[2],
    table |-> n[3], col |-> n[4], digits |-> n[5], pct |-> n[6]]
     : n \in {<<"qualityTrend", "doa", "ops_quality", "doa_pct", 2, TRUE>>,
              <<"qualityTrend", "defect", "ops_quality", "defect_pct", 2, TRUE>>,
              <<"qualityTrend", "warranty", "ops_quality", "warranty_pct", 2, TRUE>>,
              <<"reliabilityTrend", "mtbf", "ops_reliability", "mtbf_hours", 1, FALSE>>,
              <<"reliabilityTrend", "mttr", "ops_reliability", "mttr_hours", 1, FALSE>>,
              <<"costTrend", "cost_per_device", "ops_service_cost", "cost_per_device",
                2, FALSE>>}}
  \cup
  {[ep |-> "manufacturing_drilldown", keys |-> {n[1]}, name |-> "series", field |-> n[1],
    table |-> n[2], col |-> n[3], digits |-> n[4], pct |-> n[5]]
     : n \in {<<"uptime", "ops_uptime", "uptime", 3, TRUE>>,
              <<"doa", "ops_quality", "doa_pct", 2, TRUE>>,
              <<"defect", "ops_quality", "defect_pct", 2, TRUE>>,
              <<"warranty", "ops_quality", "warranty_pct", 2, TRUE>>,
              <<"mtbf", "ops_reliability", "mtbf_hours", 1, FALSE>>,
              <<"mttr", "ops_reliability", "mttr_hours", 1, FALSE>>,
              <<"cost_per_device", "ops_service_cost", "cost_per_device", 2, FALSE>>}}

\* a stored ratio on the 0-100 scale: values up to 1.5 are fractions
SpecPercent(x) == IF 2 * x <= 3 THEN 100 * x ELSE x

\* the monthly values a rate series averages: [period, x], NULL counted as 0
RateFacts(st, src) ==
  IF src.table = "feedback_scores"
  THEN {[period |-> strftime_ym(r.created_at), x |-> Coalesce(r.score)]
          : r \in {f \in st["feedback_scores"] : f.aspect = src.field}}
  ELSE {[period |-> r.period,
         x |-> IF src.pct THEN SpecPercent(Coalesce(r[src.col])) ELSE Coalesce(r[src.col])]
          : r \in st[src.table]}

\* the mean of the x of a set of facts, 0 for the empty set
RECURSIVE SumX(_)
SumX(R) == IF R = {} THEN 0 ELSE LET f == CHOOSE e \in R : TRUE IN f.x + SumX(R \ {f})

MeanOf(R) == IF R = {} THEN QZero ELSE Q(SumX(R), Cardinality(R))

Rounded(x, digits) == IF digits < 0 THEN x ELSE round(x, digits)

\* C6: the value of a rate-like series at a label is the sum of the values of the
\* rows bucketed into the label divided by their number (rounded where the
\* endpoint rounds), 0 when no row is bucketed into it; the bucketed rows are
\* rows of that label and include every such row of the window.
C6_RateMean ==
  \A src \in RateSources :
    (resp.ep = src.ep /\ resp.key \in src.keys /\ resp.status = 200) =>
      \A i \in 1..Len(resp.trends[src.name]) :
        LET pt == resp.trends[src.name][i]
            all == {f \in RateFacts(store, src) : SpecLabel(f.period, resp.gran) = pt.period}
            win == {f \in all : InWindow(f.period, resp.tf)}
        IN \E R \in SUBSET all :
             /\ win \subseteq R
             /\ pt.v[src.field] = Rounded(MeanOf(R), src.digits)

\* a quarter with the monthly values 100, 120, 90: the mean 310/3, not the sum 310
C6_Witness ==
  /\ resp.ep = "supply_overview" /\ resp.gran = "quarter" /\ resp.status = 200
  /\ \E i \in 1..Len(resp.trends["leadTimeTrend"]) :
       /\ resp.trends["leadTimeTrend"][i].period = [y |-> 2025, m |-> 0, q |-> 1]
       /\ resp.trends["leadTimeTrend"][i].v["lead_time_days"] = Q(310, 3)

\* the store without the rows of months outside the timeframe's window
DateCol(t) ==
  CASE t = "orders" -> "order_date" [] t = "customers" -> "created_at"
    [] t = "page_visits" -> "visit_date" [] t = "feedback_scores" -> "created_at"
    [] OTHER -> "period"

WindowOnly(st, tf) ==
  [t \in Tables |->
     IF t \in {"supply_cogs_breakdown", "devices"} THEN st[t]
     ELSE IF t \in {"orders", "customers", "page_visits", "feedback_scores",
                    "pipeline_stages_daily"}
     THEN {r \in st[t] : InWindow(strftime_ym(r[DateCol(t)]), tf)}
     ELSE {r \in st[t] : InWindow(r.period, tf)}]

Handle(ep, key, td, st, range_, granularity) ==
  CASE ep = "exec_overview" -> executive_dashboard(td, st, range_, granularity)
    [] ep = "finance_overview" -> finance_overview(td, st, range_, granularity)
    [] ep = "finance_drilldown" ->
         finance_kpi_drilldown(td, st, key, DefaultBy("finance"), range_, granularity)
    [] ep = "sales_overview" -> sales_overview(td, st, range_, granularity)
    [] ep = "sales_drilldown" ->
         sales_kpi_drilldown(td, st, key, DefaultBy("sales"), range_, granularity)
    [] ep = "marketing_overview" -> marketing_overview(td, st, range_, granularity)
    [] ep = "marketing_drilldown" ->
         marketing_kpi_drilldown(td, st, key, DefaultBy("marketing"), range_, granularity)
    [] ep = "supply_overview" -> supply_overview(td, st, range_, granularity)
    [] ep = "supply_drilldown" -> supply_kpi_drilldown(td, st, key, range_, granularity)
    [] ep = "manufacturing_overview" -> manufacturing_overview(td, st, range_, granularity)
    [] ep = "manufacturing_drilldown" ->
         manufacturing_kpi_drilldown(td, st, key, DefaultBy("manufacturing"), range_, granularity)

\* C7: rows of months outside the window contribute to no point: every series of
\* the response is the one the same request yields on the window's rows alone.
C7_WindowOnly ==
  (resp.ep \in OverviewEps \cup DrilldownEps /\ resp.status = 200) =>
    LET w == Handle(resp.ep, resp.key, today, WindowOnly(store, resp.tf),
                    resp.range, resp.gran)
    IN w.status = 200 => resp.trends = w.trends

\* ---------------------------------------------------------------- properties: timeframe shape
\* the last calendar day of month m of year y
SpecLastDay(y, m) ==
  CASE m \in {1, 3, 5, 7, 8, 10, 12} -> 31
    [] m \in {4, 6, 9, 11} -> 30
    [] m = 2 -> IF (y % 4 = 0 /\ y % 100 # 0) \/ y % 400 = 0 THEN 29 ELSE 28

\* C11: in every module, for every current date and range, start_date is day 1 of
\* a calendar month, end_date is the last calendar day of the current month, and
\* start_date <= end_date.
C11_MonthAligned ==
  IsTimeframe =>
    /\ resp.tf.start_date[3] = 1
    /\ resp.tf.start_date[2] \in 1..12
    /\ resp.tf.end_date = <<today[1], today[2], SpecLastDay(today[1], today[2])>>
    /\ DateLeq(resp.tf.start_date, resp.tf.end_date)

\* leap-year February in the supply module: the window ends on 2024-02-29
C11_Witness ==
  /\ IsTimeframe /\ resp.key = "supply" /\ resp.range = "12m"
  /\ today = <<2024, 2, 10>>
  /\ resp.tf.end_date = <<2024, 2, 29>>
  /\ resp.tf.start_date = <<2023, 2, 1>>

\* position of a label on the time axis, months and quarters on their own scale
LabelKey(L) == IF L.q = 0 THEN L.y * 12 + L.m ELSE L.y * 4 + L.q

\* C12: the period enumerator's output is strictly chronologically increasing, so
\* no label occurs twice, also across a year boundary.
C12_StrictlyIncreasing ==
  IsTimeframe =>
    /\ Len(resp.periods) >= 1
    /\ \A i \in 1..(Len(resp.periods) - 1) :
         LabelKey(resp.periods[i]) < LabelKey(resp.periods[i + 1])

\* a quarter view across the year boundary: 2024-Q4 is followed by 2025-Q1
C12_Witness ==
  /\ IsTimeframe /\ resp.key = "marketing" /\ resp.gran = "quarter"
  /\ \E i \in 1..(Len(resp.periods) - 1) :
       /\ resp.periods[i] = [y |-> 2024, m |-> 0, q |-> 4]
       /\ resp.periods[i + 1] = [y |-> 2025, m |-> 0, q |-> 1]

\* the months from the window's start month to its end month
WindowMonths(tf) ==
  {LabelOfIndex(i) : i \in MonthIndex(tf.start_date[1], tf.start_date[2])
                           ..MonthIndex(tf.end_date[1], tf.end_date[2])}

\* C13: in quarter granularity the enumerated labels are exactly the quarter
\* labels YYYY-Qn, n = floor((month-1)/3)+1, of the window's months, each once.
C13_QuarterLabels ==
  (IsTimeframe /\ resp.gran = "quarter") =>
    /\ SeqToSet(resp.periods) = {SpecLabel(ym, "quarter") : ym \in WindowMonths(resp.tf)}
    /\ Cardinality(SeqToSet(resp.periods)) = Len(resp.periods)

\* the months 2025-04 .. 2025-09 give [2025-Q2, 2025-Q3]
C13_Witness ==
  /\ IsTimeframe /\ resp.key = "exec" /\ resp.range = "6m" /\ resp.gran = "quarter"
  /\ today = <<2025, 9, 15>>
  /\ resp.periods = <<[y |-> 2025, m |-> 0, q |-> 2], [y |-> 2025, m |-> 0, q |-> 3]>>

\* ---------------------------------------------------------------- properties: deltas
\* the revenue_trend rows of the months with index lo .. hi
RevenueRowsIn(st, lo, hi) ==
  {r \in st["revenue_trend"] : /\ lo <= MonthIndex(r.period.y, r.period.m)
                               /\ MonthIndex(r.period.y, r.period.m) <= hi}

\* backlog of the chronologically last row, 0 without rows
EndBacklog(R) == IF R = {} THEN 0 ELSE Coalesce(LastRow(R).backlog)

\* the rule: no baseline gives (None, flat), else the relative change and its sign
SpecDelta(cur, prev) ==
  IF prev = 0 THEN [delta |-> NULL, direction |-> "flat"]
  ELSE [delta |-> Some(Q(cur - prev, prev)),
        direction |-> IF cur > prev THEN "up" ELSE IF cur < prev THEN "down" ELSE "flat"]

\* C14: _delta_dir gives (None, flat) exactly when the previous value is 0, else
\* (current - previous) / previous with direction up, down or flat by its sign;
\* the executive dashboard's revenue and backlog KPIs carry this delta and
\* direction for the window's and the previous window's values.
C14_DeltaDirection ==
  (resp.ep = "exec_overview" /\ resp.status = 200) =>
    LET n == NumMonths(resp.range)
        s == MonthIndex(resp.tf.start_date[1], resp.tf.start_date[2])
        e == MonthIndex(resp.tf.end_date[1], resp.tf.end_date[2])
        cur == RevenueRowsIn(store, s, e)
        prev == RevenueRowsIn(store, s - n, s - 1)
        rev == SpecDelta(sum_rows(cur, "recognized"), sum_rows(prev, "recognized"))
        bk == SpecDelta(EndBacklog(cur), EndBacklog(prev))
    IN /\ resp.kpis.revenue.delta = rev.delta
       /\ resp.kpis.revenue.direction = rev.direction
       /\ resp.kpis.backlog.delta = bk.delta
       /\ resp.kpis.backlog.direction = bk.direction

\* recognized 120 after 100 + 120: revenue is down by 100/220, the backlog stayed at 120
C14_Witness ==
  /\ resp.ep = "exec_overview" /\ resp.status = 200
  /\ resp.kpis.revenue.delta = Some(Q(-100, 220))
  /\ resp.kpis.revenue.direction = "down"
  /\ resp.kpis.backlog.delta = Some(QZero)
  /\ resp.kpis.backlog.direction = "flat"

\* C15: the previous window of the executive dashboard's deltas spans exactly n
\* calendar months like the current window, its last month is the month right
\* before the current window's first month, and it ends on that month's last day.
C15_PreviousWindow ==
  (IsTimeframe /\ resp.key = "exec") =>
    LET n == NumMonths(resp.range)
        s == MonthIndex(resp.tf.start_date[1], resp.tf.start_date[2])
        e == MonthIndex(resp.tf.end_date[1], resp.tf.end_date[2])
        pw == resp.kpis.prev
        ps == MonthIndex(pw.start[1], pw.start[2])
        pe == MonthIndex(pw.end[1], pw.end[2])
    IN /\ pe - ps + 1 = n
       /\ e - s + 1 = n
       /\ pe = s - 1
       /\ pw.start[3] = 1
       /\ pw.end[3] = SpecLastDay(pw.end[1], pw.end[2])

\* 2025-03-15, 12m: the window 2024-04 .. 2025-03 follows 2023-04-01 .. 2024-03-31
C15_Witness ==
  /\ IsTimeframe /\ resp.key = "exec" /\ resp.range = "12m"
  /\ today = <<2025, 3, 15>>
  /\ resp.kpis.prev = [start |-> <<2023, 4, 1>>, end |-> <<2024, 3, 31>>]

\* ---------------------------------------------------------------- properties: coverage
\* the up to six most recent monthly revenue_trend rows not after month index e
TrailingSix(st, e) ==
  LET upto == RevenueRowsIn(st, 0, e)
  IN {r \in upto : Cardinality({x \in upto : MonthIndex(x.period.y, x.period.m)
                                               > MonthIndex(r.period.y, r.period.m)}) < 6}

CoverageValue(r) ==
  IF r.ep = "exec_overview" THEN r.kpis.coverage_months.value ELSE r.kpis.coverage_months

IsNormalize == resp.ep = "normalize"

\* the rule with cutoff c: null or unparseable gives 0, values up to c stay,
\* larger values are divided by 100
SpecNormalize(v, c) ==
  IF v = NULL \/ DOMAIN The(v) # {"n", "d"} THEN QZero
  ELSE IF The(v).n * c.d <= c.n * The(v).d THEN The(v)
  ELSE Q(The(v).n, The(v).d * 100)

\* C17: _as_fraction returns 0.0 for null and for what is no number, v unchanged
\* for v <= cutoff and v / 100 for v > cutoff, with cutoff 2 in the executive
\* dashboard and finance modules and 1.5 in the manufacturing module.
C17_AsFraction ==
  IsNormalize =>
    resp.kpis.output =
      SpecNormalize(resp.kpis.input,
                    IF resp.key = "manufacturing" THEN Q(3, 2) ELSE QInt(2))

\* 95 gives 0.95 in the manufacturing module
C17_Witness ==
  /\ IsNormalize /\ resp.key = "manufacturing"
  /\ resp.kpis.input = Some(QInt(95))
  /\ resp.kpis.output = Q(95, 100)

\* C18 as claimed: 1.10 stays 1.10 under the cutoff 2.0 and becomes 0.011 under the
\* cutoff 1.5
C18_Original ==
  (IsNormalize /\ resp.kpis.input = Some(Q(110, 100))) =>
    IF resp.key = "manufacturing" THEN resp.kpis.output = Q(11, 1000)
    ELSE resp.kpis.output = Q(110, 100)

\* C18 amended: 1.10 stays 1.10 under both normalizers; the two differ for inputs
\* above 1.5 and up to 2.0: 1.80 stays 1.80 under the cutoff 2.0 and becomes 0.018
\* under the cutoff 1.5.
C18_CutoffGap ==
  IsNormalize =>
    /\ resp.kpis.input = Some(Q(110, 100)) => resp.kpis.output = Q(110, 100)
    /\ resp.kpis.input = Some(Q(180, 100)) =>
         IF resp.key = "manufacturing" THEN resp.kpis.output = Q(18, 1000)
         ELSE resp.kpis.output = Q(180, 100)

\* 1.80 under the manufacturing normalizer
C18_Witness ==
  /\ IsNormalize /\ resp.key = "manufacturing"
  /\ resp.kpis.input = Some(Q(180, 100))
  /\ resp.kpis.output = Q(18, 1000)

\* C19: the cutoff is fixed per metric family in every module: 1.5 for uptime and
\* quality ratios, 2.0 for NRR values, so one raw uptime value gives one fraction
\* in the executive dashboard, the finance drilldown and the manufacturing module.
C19_FamilyCutoff ==
  IsNormalize =>
    resp.kpis.output =
      SpecNormalize(resp.kpis.input,
                    IF resp.kpis.family = "nrr" THEN QInt(2) ELSE Q(3, 2))

\* ---------------------------------------------------------------- breakdown shares
\* the endpoints that return a breakdown
BreakdownEps == {"finance_drilldown", "sales_drilldown", "supply_overview",
                 "supply_drilldown", "marketing_overview", "marketing_drilldown",
                 "manufacturing_overview", "manufacturing_drilldown"}

\* the value or the count of a breakdown row
RowValue(r) == IF "value" \in DOMAIN r THEN r.value ELSE r.count

RECURSIVE ShareSum(_, _)
ShareSum(bd, i) == IF i > Len(bd) THEN QZero ELSE QAdd(bd[i].share, ShareSum(bd, i + 1))

\* C16: in every breakdown a handler returns, the shares sum to exactly 1 when some
\* row has a nonzero value (an amount, a cost or a count, none of them negative),
\* and every share is 0 when every value is 0; a COGS table whose costs are all
\* zero is answered with status 200 and one row per component, not with a
\* division error.
C16_ShareSum ==
  resp.ep \in BreakdownEps =>
    /\ resp.status = 200 =>
         IF \E i \in 1..Len(resp.breakdown) : RowValue(resp.breakdown[i]) # 0
         THEN QEq(ShareSum(resp.breakdown, 1), QInt(1))
         ELSE \A i \in 1..Len(resp.breakdown) : QEq(resp.breakdown[i].share, QZero)
    /\ (resp.ep \in {"supply_overview", "supply_drilldown"}
          /\ \A r \in store["supply_cogs_breakdown"] : Coalesce(r.cost) = 0)
         => /\ resp.status = 200
            /\ Len(resp.breakdown) = Cardinality(store["supply_cogs_breakdown"])

\* a finance drilldown whose breakdown splits 17 into the shares 9/17 and 8/17
C16_Witness ==
  /\ resp.ep = "finance_drilldown"
  /\ resp.status = 200
  /\ Len(resp.breakdown) = 2
  /\ resp.breakdown[1].share = Q(9, 17)
  /\ resp.breakdown[2].share = Q(8, 17)

\* a breakdown of rows that are all zero
C16_ZeroCase ==
  /\ resp.ep \in BreakdownEps
  /\ resp.status = 200
  /\ Len(resp.breakdown) >= 2
  /\ \A i \in 1..Len(resp.breakdown) : RowValue(resp.breakdown[i]) = 0

\* ---------------------------------------------------------------- granularity and KPIs
OtherGranularity(g) == IF g = "month" THEN "quarter" ELSE "month"

\* C26: the KPIs of a manufacturing overview are those the same request yields with
\* the other granularity.
C26_GranularityFree ==
  (resp.ep = "manufacturing_overview" /\ resp.status = 200) =>
    resp.kpis = manufacturing_overview(today, store, resp.range,
                                       OtherGranularity(resp.gran)).kpis

\* ---------------------------------------------------------------- divisions
\* C21: no request is answered with an uncaught ZeroDivisionError: every ratio,
\* delta, average and share whose denominator is zero takes its default instead.
C21_NoDivisionByZero == resp.error # "ZeroDivisionError"

\* an executive dashboard over a window whose orders have profit but amounts of 0
\* and whose revenue rows are all 0: gross margin 0, book-to-bill 1, coverage 0,
\* no revenue delta
C21_Witness ==
  /\ resp.ep = "exec_overview"
  /\ resp.status = 200
  /\ \E o \in BetweenDay(store["orders"], "order_date", resp.tf.start_date, resp.tf.end_date) :
       o.amount = Some(0) /\ o.profit = Some(30)
  /\ resp.kpis.gm.value = QZero
  /\ resp.kpis.book_to_bill.value = QInt(1)
  /\ resp.kpis.coverage_months.value = QZero
  /\ resp.kpis.revenue.delta = NULL

\* the dimension the breakdown of the answer r is grouped by
AnsweredDimension(r) ==
  IF r.ep = "marketing_drilldown" THEN marketing_dimension(r.key, r.by) ELSE r.by

Unsupported(r) ==
  \/ r.range \notin Ranges
  \/ r.gran \notin Grans
  \/ r.key \notin EndpointKeys(r.ep)
  \/ r.by \notin EndpointBys(r.ep)

\* C22: a request with a range, granularity, key or dimension outside the supported
\* ones is answered 422 with nothing read, and an answered drilldown is broken down
\* by the dimension that was requested, never by another one
C22_RejectUnsupported ==
  /\ (resp.status # 0 /\ Unsupported(resp)) =>
       /\ resp.status = 422
       /\ resp.kpis = EmptyMap /\ resp.trends = EmptyMap /\ resp.breakdown = <<>>
  /\ (resp.ep \in DrilldownEps /\ resp.status = 200) =>
       AnsweredDimension(resp) = resp.by

\* the database as it was when only the months of M had been committed
AsOf(st, M) ==
  [t \in Tables |->
     {r \in st[t] : \/ r \in StaticStore[t]
                    \/ \E ym \in M, v \in SeedValues : r \in SeedRows(ym, v)[t]}]

\* C23: the trend and the KPIs of an answered executive dashboard all derive from
\* one state the store was in, also when a commit lands between two of its queries
C23_OneSnapshot ==
  (resp.ep = "exec_overview" /\ resp.status = 200) =>
    \E M \in SUBSET SeededMonths(store) :
      LET one == executive_dashboard(today, AsOf(store, M), resp.range, resp.gran)
      IN resp.kpis = one.kpis /\ resp.trends = one.trends

\* C24: a step that answers a request leaves every table with exactly the rows it had
C24_ReadOnly == [][(resp = Idle /\ resp' # Idle) => store' = store]_vars

C24_Witness ==
  /\ resp.ep \in {"exec_overview", "supply_drilldown"}
  /\ resp.status = 200
  /\ Cardinality(SeededMonths(store)) = MaxRows
  /\ store["supply_cogs_breakdown"] = CogsRows

\* C25: the series and the breakdown of an answered finance drilldown are those
\* computed against the one timeframe of the response, also when midnight of a
\* month's last day passes while the request runs
C25_OneTimeframe ==
  (resp.ep = "finance_drilldown" /\ resp.status = 200) =>
    LET one == finance_kpi_drilldown(resp.tf.end_date, store, resp.key, resp.by,
                                     resp.range, resp.gran)
    IN resp.trends = one.trends /\ resp.breakdown = one.breakdown

\* the mean of the uptime values of the window, each normalized by itself
NormalizedMean(st, tf) ==
  LET rows == order_by_period({r \in BetweenYm(st["ops_uptime"], strftime_ym(tf.start_date),
                                               strftime_ym(tf.end_date)) : r.uptime # NULL})
      each == [i \in 1..Len(rows) |-> exec_as_fraction(Lift(rows[i].uptime))]
  IN IF rows = <<>> THEN QZero ELSE QDivInt(QSumSeq(each), Len(rows))

\* C27: the uptime of the executive dashboard, before it is rounded, is the mean of
\* the individually normalized uptime values of the window, also for mixed scales
C27_UptimeMean ==
  (resp.ep = "exec_overview" /\ resp.status = 200) =>
    QEq(exec_uptime(store, strftime_ym(resp.tf.start_date), strftime_ym(resp.tf.end_date)),
        NormalizedMean(store, resp.tf))

IndexOfMonth(d) == d[1] * 12 + d[2] - 1

\* C28: month_add(d, k) is day 1 of the month whose index is k more than that of
\* d's month, with the month in 1..12, for k of either sign and across year
\* boundaries; shifting back by k gives month_floor(d)
C28_MonthAdd ==
  (inflight # NoRequest /\ inflight.ep \in {"month_add", "month_back"}) =>
    /\ inflight.out[3] = 1
    /\ inflight.out[2] \in 1..12
    /\ IndexOfMonth(inflight.out) = IndexOfMonth(inflight.d) + inflight.k
    /\ inflight.ep = "month_back" => inflight.back = month_floor(inflight.d)

C28_Witness ==
  /\ inflight # NoRequest
  /\ inflight.ep = "month_back"
  /\ inflight.k < -24
  /\ inflight.d[3] = 15
  /\ inflight.out[1] = inflight.d[1] - 3
  /\ inflight.back = <<inflight.d[1], inflight.d[2], 1>>

\* the workers whose request passed the rate limit and has not been answered yet
Admitted == {t \in DOMAIN ai_threads : ai_threads[t].pc \in {"store", "200"}}

\* C29: two requests that were both admitted read the clock at least
\* _MIN_INTERVAL_SEC seconds apart
C29_RateLimit ==
  \A t \in Admitted, u \in Admitted :
    t # u => \/ ai_threads[t].now - ai_threads[u].now >= _MIN_INTERVAL_SEC
             \/ ai_threads[u].now - ai_threads[t].now >= _MIN_INTERVAL_SEC

\* C30: every stored meeting ends strictly after it starts
C30_EndAfterStart ==
  \A m \in meetings :
    instant(fromisoformat(m.end_time)) > instant(fromisoformat(m.start_time))

====
